---------------------------- MODULE Spec2Model ----------------------------
(***************************************************************************)
(* Media description engine of VCPToolBox: the sidecar description store   *)
(* (modules/mediaDescriptionManager.js), the segmented description text,   *)
(* the content-hash reconciliation of orphaned sidecars, and the callers   *)
(* that write records (Plugin/KnowledgeMediaDescriber, multimediaRecognizer*)
(* ).  Text is modelled as sequences of one-character strings.             *)
(***************************************************************************)
EXTENDS Integers, Sequences, FiniteSets, TLC

VARIABLES
    segDesc,    \* segmented model: the record's description string
    segEst,     \* segmented model: the Map held by the last upsert after set()
    segN,       \* segmented model: number of upserts made
    fs,         \* the directory: file name -> file content, NoFile when absent
    rec,        \* the reconcileOrphanedDescFiles run: position and locals
    now,        \* the clock new Date() reads: the instant of the last call
    wr,         \* per caller: the writeDescription call in flight, or the last one
    last,       \* the operation invoked last, and what it returned
    moved,      \* the rename an external actor made right after a write
    rn,         \* a render call: its arguments, its locals and what it returned
    img,        \* a media file under the embedded codecs: its bytes and calls
    sc,         \* a scanDirectory call: the directory read and what it returned
    bt          \* a list_files or recognizeBatch call: position and results

segVars == <<segDesc, segEst, segN>>
storeVars == <<now, wr, last, moved>>
pureVars == <<rn, img, sc, bt>>
vars == <<segDesc, segEst, segN, fs, rec, now, wr, last, moved, rn, img, sc, bt>>

\* no render, codec, scan, list or batch call has been made
NoRender == [pc |-> "none"]
NoImage == [pc |-> "none"]
NoScan == [pc |-> "none"]
NoBatch == [pc |-> "none"]
PureIdle == rn = NoRender /\ img = NoImage /\ sc = NoScan /\ bt = NoBatch

(***************************************************************************)
(* Strings                                                                 *)
(***************************************************************************)
\* the characters String.prototype.trim() strips that the model uses
IsWs(c) == c \in {" ", "\n"}

RECURSIVE TrimLeft(_)
TrimLeft(s) ==
    IF s # <<>> /\ IsWs(Head(s)) THEN TrimLeft(Tail(s)) ELSE s

RECURSIVE TrimRight(_)
TrimRight(s) ==
    IF s # <<>> /\ IsWs(s[Len(s)]) THEN TrimRight(SubSeq(s, 1, Len(s) - 1)) ELSE s

\* String.prototype.trim()
Trim(s) == TrimRight(TrimLeft(s))

MinOf(S) == CHOOSE x \in S : \A y \in S : x <= y

(***************************************************************************)
(* Segmented description: parseSegmentedDescription and the upsert of      *)
(* recognizeAndDescribe.  A Map is a sequence of <<name, content>> pairs   *)
(* in insertion order.                                                     *)
(***************************************************************************)
MapHas(m, k) == \E i \in 1..Len(m) : m[i][1] = k

\* Map.prototype.set: an existing key keeps its position
MapSet(m, k, v) ==
    IF MapHas(m, k)
    THEN [i \in 1..Len(m) |-> IF m[i][1] = k THEN <<k, v>> ELSE m[i]]
    ELSE Append(m, <<k, v>>)

\* The regular expression's marker \[@([^\]]+):\] tried at position i: the
\* index of the closing bracket, or 0 when no marker starts at i.  [^\]]+
\* cannot pass a "]", so the marker closes at the first "]" after "[@",
\* which must follow a ":" and leave a non-empty name.
MarkerEnd(s, i) ==
    IF i + 1 <= Len(s) /\ s[i] = "[" /\ s[i + 1] = "@"
    THEN LET close == {j \in (i + 2)..Len(s) : s[j] = "]"}
         IN  IF close = {} THEN 0
             ELSE LET j == MinOf(close)
                  IN  IF j >= i + 4 /\ s[j - 1] = ":" THEN j ELSE 0
    ELSE 0

\* first position >= k where a marker starts, Len(s) + 1 when there is none
\* (the lookahead's "$")
NextMarker(s, k) ==
    LET at == {p \in k..Len(s) : MarkerEnd(s, p) # 0}
    IN  IF at = {} THEN Len(s) + 1 ELSE MinOf(at)

\* the while loop of regex.exec over the string, from lastIndex k
RECURSIVE ParseFrom(_, _, _)
ParseFrom(s, k, segments) ==
    LET p == NextMarker(s, k)
    IN  IF p > Len(s) THEN segments
        ELSE LET j == MarkerEnd(s, p)
                 q == NextMarker(s, j + 1)
                 presetName == Trim(SubSeq(s, p + 2, j - 2))
                 content == Trim(SubSeq(s, j + 1, q - 1))
             IN  ParseFrom(s, q,
                     IF content # <<>> THEN MapSet(segments, presetName, content)
                     ELSE segments)

Native == <<"N", "a", "t", "i", "v", "e">>

parseSegmentedDescription(fullDescription) ==
    IF fullDescription = <<>> THEN <<>>
    ELSE LET hasMatches == NextMarker(fullDescription, 1) <= Len(fullDescription)
         IN  IF hasMatches THEN ParseFrom(fullDescription, 1, <<>>)
             ELSE IF Trim(fullDescription) # <<>>
                  THEN <<<<Native, Trim(fullDescription)>>>>
                  ELSE <<>>

\* presetName.startsWith('@') ? presetName.substring(1) : presetName
cleanPresetName(presetName) ==
    IF presetName # <<>> /\ Head(presetName) = "@" THEN Tail(presetName)
    ELSE presetName

\* fullDescription += `[@${segName}:]\n${content}\n\n` for every segment
RECURSIVE AssembleSegments(_)
AssembleSegments(segments) ==
    IF segments = <<>> THEN <<>>
    ELSE <<"[", "@">> \o segments[1][1] \o <<":", "]", "\n">>
         \o segments[1][2] \o <<"\n", "\n">>
         \o AssembleSegments(Tail(segments))

\* latestSegments after latestSegments.set(cleanPresetName, description)
UpsertSegments(description, presetName, content) ==
    MapSet(parseSegmentedDescription(description), cleanPresetName(presetName), content)

\* the description string recognizeAndDescribe persists
UpsertDescription(description, presetName, content) ==
    Trim(AssembleSegments(UpsertSegments(description, presetName, content)))

(***************************************************************************)
(* File names.  A name is the sequence of its dot-separated components:    *)
(* "a.png" is <<"a", "png">>, ".h.png" is <<"", "h", "png">>.              *)
(***************************************************************************)
MULTIMEDIA_EXTENSIONS ==
    { "png", "jpg", "jpeg", "gif", "webp", "bmp", "svg", "ico", "tiff", "tif",
      "avif", "mp4", "avi", "mov", "mkv", "webm", "flv", "mp3", "wav", "ogg",
      "flac", "aac", "m4a", "pdf" }

BASE64_SENDABLE_EXTENSIONS ==
    { "png", "jpg", "jpeg", "gif", "webp", "bmp", "svg", "pdf" }

\* String.prototype.toLowerCase on the extensions in use
lowerCaseKept(ext) == ext

lowerCase(ext) ==
    IF ext = "PNG" THEN "png" ELSE IF ext = "MD" THEN "md" ELSE ext

\* path.extname(name).toLowerCase(), without the dot; "" when there is none
extname(name) ==
    IF Len(name) >= 3 \/ (Len(name) = 2 /\ name[1] # "")
    THEN lowerCase(name[Len(name)])
    ELSE ""

isMultimediaFile(filename) == extname(filename) \in MULTIMEDIA_EXTENSIONS

isBase64Sendable(filename) == extname(filename) \in BASE64_SENDABLE_EXTENSIONS

\* filename.startsWith('.')
shouldIgnore(filename) == filename[1] = ""

\* filePath + '.desc.json'
getDescPath(filePath) == filePath \o <<"desc", "json">>

\* name.endsWith('.desc.json')
endsWithDescJson(name) ==
    /\ Len(name) >= 3
    /\ name[Len(name) - 1] = "desc"
    /\ name[Len(name)] = "json"

\* entry.name.replace(/\.desc\.json$/, '')
originalNameOf(descName) == SubSeq(descName, 1, Len(descName) - 2)

(***************************************************************************)
(* The directory                                                           *)
(***************************************************************************)
NumBases == 2

\* Values are records tagged by kind, so that any two can be compared.
Undef == [kind |-> "undefined"]   \* an absent key of a JavaScript object
Null == [kind |-> "null"]
NoFile == [kind |-> "ENOENT"]     \* no such directory entry
BadJson == [kind |-> "bad-json"]  \* a sidecar that cannot be read or parsed

aPng == <<"a", "png">>
bJpg == <<"b", "jpg">>
cMp4 == <<"c", "mp4">>
dPng == <<"d", "png">>
eJpg == <<"e", "jpg">>
fMp4 == <<"f", "mp4">>
nTxt == <<"n", "txt">>
hPng == <<"", "h", "png">>

\* the paths callers address
MediaPaths == {aPng, bJpg, cMp4, dPng, eJpg, fMp4}
OtherPaths == {nTxt, hPng}
Names == MediaPaths \cup OtherPaths \cup {getDescPath(p) : p \in MediaPaths}

\* fs.readdir order of the names
Listing ==
    << hPng, aPng, getDescPath(aPng), bJpg, getDescPath(bJpg),
       cMp4, getDescPath(cMp4), dPng, getDescPath(dPng),
       eJpg, getDescPath(eJpg), fMp4, getDescPath(fMp4), nTxt >>

\* bytes of a media file: the image/audio payload, whether it starts with the
\* format's signature, and the text of its Description chunk / COM marker
\* (<<>> when it has none)
MediaBytes(base, wellFormed, text) ==
    [kind |-> "media", base |-> base, wellFormed |-> wellFormed, text |-> text]

\* a sidecar file holding JSON.stringify(data)
JsonFile(data) == [kind |-> "json", data |-> data]

Exists(fsys, name) == name \in DOMAIN fsys /\ fsys[name] # NoFile

\* crypto.createHash('sha256').update(buffer).digest('hex'): distinct bytes
\* have distinct digests
computeFileHash(fsys, filePath) == [kind |-> "sha256", of |-> fsys[filePath]]

\* the entries fs.readdir returns, in listing order
Entries(fsys) == SelectSeq(Listing, LAMBDA n : Exists(fsys, n))

(***************************************************************************)
(* scanDirectory.  A directory read is whether the directory exists and    *)
(* the entries fs.readdir returns for it, each a name and entry.isFile().  *)
(***************************************************************************)
Bpng == <<"B", "png">>
gPNG == <<"g", "PNG">>
mMD == <<"m", "MD">>
rBare == <<"r">>
zZip == <<"z", "zip">>

\* every name in use, in the order of the UTF-16 code units of the names:
\* ".h.png", "B.png", "a.png", "a.png.desc.json", ...
NameOrder ==
    << hPng, Bpng, aPng, getDescPath(aPng), bJpg, getDescPath(bJpg),
       cMp4, getDescPath(cMp4), dPng, getDescPath(dPng),
       eJpg, getDescPath(eJpg), fMp4, getDescPath(fMp4), gPNG, mMD, nTxt,
       rBare, zZip >>

\* Array.prototype.sort() on a list of distinct names
sort(names) ==
    SelectSeq(NameOrder, LAMBDA n : \E i \in 1..Len(names) : names[i] = n)

NamesOf(entries) == [i \in 1..Len(entries) |-> entries[i].name]

\* scanDirectory(dirPath); an error of fs.readdir leaves both lists empty
scanDirectory(dir) ==
    LET kept == IF ~dir.exists THEN <<>>
                ELSE SelectSeq(dir.entries,
                               LAMBDA e : /\ ~shouldIgnore(e.name)
                                          /\ ~endsWithDescJson(e.name)
                                          /\ e.isFile)
        textFiles == SelectSeq(kept, LAMBDA e : extname(e.name) \in {"txt", "md"})
        multimediaFiles ==
            SelectSeq(kept, LAMBDA e : /\ extname(e.name) \notin {"txt", "md"}
                                       /\ isMultimediaFile(e.name))
    IN  [textFiles |-> sort(NamesOf(textFiles)),
         multimediaFiles |-> sort(NamesOf(multimediaFiles))]

\* the read of the modelled directory, whose entries are all regular files
DirRead(fsys) ==
    [exists |-> TRUE,
     entries |-> [i \in 1..Len(Entries(fsys)) |->
                    [name |-> Entries(fsys)[i], isFile |-> TRUE]]]

(***************************************************************************)
(* reconcileOrphanedDescFiles                                              *)
(***************************************************************************)
MaxRuns == 2

\* step 1 and 2: the .desc.json entries whose original file does not exist
orphanDescsOfAll(fsys) ==
    SelectSeq(Entries(fsys),
              LAMBDA n : ~shouldIgnore(n) /\ endsWithDescJson(n))

orphanDescsOf(fsys) ==
    SelectSeq(Entries(fsys),
              LAMBDA n : /\ ~shouldIgnore(n)
                         /\ endsWithDescJson(n)
                         /\ ~Exists(fsys, originalNameOf(n)))

\* step 3: the multimedia entries that have no sidecar
mediaFilesOfAll(fsys) ==
    SelectSeq(Entries(fsys),
              LAMBDA n : /\ ~shouldIgnore(n)
                         /\ ~endsWithDescJson(n)
                         /\ isMultimediaFile(n))

mediaFilesOf(fsys) ==
    SelectSeq(Entries(fsys),
              LAMBDA n : /\ ~shouldIgnore(n)
                         /\ ~endsWithDescJson(n)
                         /\ isMultimediaFile(n)
                         /\ ~Exists(fsys, getDescPath(n)))

\* the inner for loop: index of the first candidate whose hash equals
\* fileHash, 0 when the loop ends with matched = false
MatchIndexLast(fsys, mediaFiles, fileHash) ==
    LET hit == {i \in 1..Len(mediaFiles) :
                    computeFileHash(fsys, mediaFiles[i]) = fileHash}
    IN  IF hit = {} THEN 0 ELSE CHOOSE i \in hit : \A j \in hit : j <= i

MatchIndexAny(fsys, mediaFiles, fileHash) ==
    IF mediaFiles = <<>> THEN 0 ELSE 1

MatchIndex(fsys, mediaFiles, fileHash) ==
    LET hit == {i \in 1..Len(mediaFiles) :
                    computeFileHash(fsys, mediaFiles[i]) = fileHash}
    IN  IF hit = {} THEN 0 ELSE MinOf(hit)

\* mediaFiles.splice(i, 1)
SpliceKeep(mediaFiles, i) == mediaFiles

Splice(mediaFiles, i) ==
    SubSeq(mediaFiles, 1, i - 1) \o SubSeq(mediaFiles, i + 1, Len(mediaFiles))

\* fs.rename(oldPath, newPath)
Rename(fsys, oldPath, newPath) ==
    [fsys EXCEPT ![oldPath] = NoFile, ![newPath] = fsys[oldPath]]

RecIdle ==
    rec = [pc |-> "idle", runs |-> 0, orphanDescs |-> <<>>, mediaFiles |-> <<>>,
           i |-> 0, reconciled |-> <<>>, orphaned |-> <<>>]

\* readdir and steps 1 to 3; returns at once when nothing is orphaned
ReconcileScan ==
    /\ rec.pc \in {"idle", "done"}
    /\ rec.runs < MaxRuns
    /\ LET orphanDescs == orphanDescsOf(fs)
       IN  rec' = [pc |-> IF orphanDescs = <<>> THEN "done" ELSE "match",
                   runs |-> rec.runs + 1,
                   orphanDescs |-> orphanDescs,
                   mediaFiles |-> IF orphanDescs = <<>> THEN <<>> ELSE mediaFilesOf(fs),
                   i |-> 1,
                   reconciled |-> <<>>,
                   orphaned |-> <<>>]
    /\ UNCHANGED fs

\* step 4, one orphan: read its fileHash, match it against the candidates
ReconcileMatch ==
    /\ rec.pc = "match"
    /\ LET descName == rec.orphanDescs[rec.i]
           file == fs[descName]
           fileHash == IF file = BadJson THEN Undef ELSE file.data.fileHash
           k == IF fileHash = Undef THEN 0
                ELSE MatchIndex(fs, rec.mediaFiles, fileHash)
           next == IF rec.i = Len(rec.orphanDescs) THEN "done" ELSE "match"
       IN  IF k = 0
           THEN /\ rec' = [rec EXCEPT !.pc = next, !.i = rec.i + 1,
                                      !.orphaned = Append(rec.orphaned, descName)]
                /\ UNCHANGED fs
           ELSE /\ fs' = Rename(fs, descName, getDescPath(rec.mediaFiles[k]))
                /\ rec' = [rec EXCEPT
                             !.pc = next, !.i = rec.i + 1,
                             !.reconciled =
                                 Append(rec.reconciled,
                                        [oldName |-> originalNameOf(descName),
                                         newName |-> rec.mediaFiles[k]]),
                             !.mediaFiles = Splice(rec.mediaFiles, k)]

(***************************************************************************)
(* Records.  A description object has every key; an absent key holds "",   *)
(* <<>>, 0 or Undef.  Tags are the list of the comma-separated tags.       *)
(***************************************************************************)
DescObj(presetName, description, tags, modelUsed) ==
    [presetName |-> presetName, description |-> description, tags |-> tags,
     modelUsed |-> modelUsed, createdAt |-> 0, updatedAt |-> 0,
     fileHash |-> Undef, originalMetadata |-> Undef]

\* {} : the object with no key
EmptyObj == DescObj("", <<>>, <<>>, "")

\* what the embedded readers return for a description text
EmbeddedView(presetName, text) ==
    [DescObj(presetName, text, <<>>, "") EXCEPT !.originalMetadata = [kind |-> "object"]]

(***************************************************************************)
(* readDescription and the embedded readers                                *)
(***************************************************************************)
\* what the embedded readers do with the error _parsePngChunks and
\* _parseJpegMarkers throw for a file without signature: catch (e) { }, then
\* return null
Threw == [kind |-> "threw"]

embeddedErrorThrown == Threw

embeddedErrorCaught == Null

\* _readPngEmbeddedMetadata: the text of the first Description/Comment chunk
readPngEmbeddedMetadata(fsys, filePath) ==
    IF ~Exists(fsys, filePath) THEN Null
    ELSE IF ~fsys[filePath].wellFormed THEN embeddedErrorCaught
    ELSE IF fsys[filePath].text = <<>> THEN Null
    ELSE EmbeddedView("Embedded", fsys[filePath].text)

\* _readJpegEmbeddedMetadata: the trimmed text of the first COM marker
readJpegEmbeddedMetadata(fsys, filePath) ==
    IF ~Exists(fsys, filePath) THEN Null
    ELSE IF ~fsys[filePath].wellFormed THEN embeddedErrorCaught
    ELSE IF Trim(fsys[filePath].text) = <<>> THEN Null
    ELSE EmbeddedView("Embedded", Trim(fsys[filePath].text))

readEmbeddedMetadata(fsys, filePath) ==
    IF extname(filePath) = "png" THEN readPngEmbeddedMetadata(fsys, filePath)
    ELSE IF extname(filePath) \in {"jpg", "jpeg"}
         THEN readJpegEmbeddedMetadata(fsys, filePath)
         ELSE Null

readDescriptionMirrorFirst(fsys, filePath) ==
    IF readEmbeddedMetadata(fsys, filePath) # Null
    THEN readEmbeddedMetadata(fsys, filePath)
    ELSE IF Exists(fsys, getDescPath(filePath))
            /\ fsys[getDescPath(filePath)].kind = "json"
         THEN fsys[getDescPath(filePath)].data
         ELSE Null

readDescription(fsys, filePath) ==
    LET descPath == getDescPath(filePath)
    IN  IF ~Exists(fsys, descPath) THEN readEmbeddedMetadata(fsys, filePath)
        ELSE IF fsys[descPath].kind = "json" THEN fsys[descPath].data
        ELSE Null

(***************************************************************************)
(* writeDescription, one step per file-system call it awaits               *)
(***************************************************************************)
MaxTime == 3

\* the callers that can have a writeDescription call in flight
Procs == {"caller1", "caller2"}

WrIdle ==
    [pc |-> "idle", op |-> "none", path |-> aPng, data |-> EmptyObj,
     buffer |-> NoFile, result |-> "none", mirror |-> "none", persisted |-> FALSE,
     presetName |-> <<>>]

NoOp == [op |-> "none", path |-> aPng, result |-> Null]
NoMove == [kind |-> "none"]

StoreIdle ==
    /\ now = 0
    /\ wr = [w \in Procs |-> WrIdle]
    /\ last = NoOp
    /\ moved = NoMove

\* no call is in flight
Quiet == (\A w \in Procs : wr[w].pc = "idle") /\ rec.pc \in {"idle", "done"}

\* a call is made: the clock reads a later instant than at the call before
Call ==
    /\ now < MaxTime
    /\ now' = now + 1

\* const { presetName, ...rest } = descObj; updatedAt; createdAt when absent
writeData(descObj, t) ==
    [descObj EXCEPT !.presetName = "", !.updatedAt = t,
                    !.createdAt = IF descObj.createdAt = 0 THEN t
                                  ELSE descObj.createdAt]

\* the call writeDescription(filePath, descObj) up to its first await
BeginWrite(w, op, filePath, descObj, t) ==
    /\ wr' = [wr EXCEPT ![w] =
                [pc |-> "hash", op |-> op, path |-> filePath,
                 data |-> writeData(descObj, t), buffer |-> NoFile,
                 result |-> "pending", mirror |-> "none", persisted |-> FALSE,
                 presetName |-> IF op = "recognize" THEN wr[w].presetName
                                ELSE <<>>]]
    /\ last' = [op |-> op, path |-> filePath, result |-> Null]
    /\ moved' = NoMove
    /\ UNCHANGED <<fs, rec>>

\* try { data.fileHash = sha256(readFile(filePath)) } catch { keep }
hashedData(fsys, filePath, data) ==
    IF Exists(fsys, filePath)
    THEN [data EXCEPT !.fileHash = computeFileHash(fsys, filePath)]
    ELSE data

WriteHash(w) ==
    /\ wr[w].pc = "hash"
    /\ wr' = [wr EXCEPT ![w].pc = "sidecar",
                        ![w].data = hashedData(fs, wr[w].path, wr[w].data)]
    /\ UNCHANGED <<fs, rec, now, last, moved>>

\* ext === '.png' || ext === '.jpg' || ext === '.jpeg'
mirrors(filePath) == extname(filePath) \in {"png", "jpg", "jpeg"}

\* await fs.writeFile(descPath, JSON.stringify(data)): the write or its error
WriteSidecar(w) ==
    /\ wr[w].pc = "sidecar"
    /\ \/ /\ fs' = [fs EXCEPT ![getDescPath(wr[w].path)] = JsonFile(wr[w].data)]
          /\ wr' = [wr EXCEPT
                      ![w].persisted = TRUE,
                      ![w].pc = IF mirrors(wr[w].path) THEN "mirrorRead" ELSE "idle",
                      ![w].result = IF mirrors(wr[w].path) THEN "pending" ELSE "ok"]
       \/ /\ wr' = [wr EXCEPT ![w].pc = "idle", ![w].result = "threw"]
          /\ UNCHANGED fs
    /\ UNCHANGED <<rec, now, last, moved>>

\* the buffer _writePngEmbeddedMetadata / _writeJpegEmbeddedMetadata rebuild:
\* the Description chunk (COM marker) replaced or inserted, the rest kept
rebuiltKeep(buffer, textToWrite) == buffer

rebuilt(buffer, textToWrite) == [buffer EXCEPT !.text = textToWrite]

\* _writeEmbeddedMetadata up to its fs.writeFile: the file read, the
\* signature and empty-text checks, and the rebuild
WriteMirrorRead(w) ==
    /\ wr[w].pc = "mirrorRead"
    /\ IF ~Exists(fs, wr[w].path)
       THEN wr' = [wr EXCEPT ![w].pc = "idle", ![w].result = "ok",
                             ![w].mirror = "failed"]
       ELSE IF ~fs[wr[w].path].wellFormed \/ Trim(wr[w].data.description) = <<>>
       THEN wr' = [wr EXCEPT ![w].pc = "idle", ![w].result = "ok",
                             ![w].mirror = "skipped"]
       ELSE wr' = [wr EXCEPT ![w].pc = "mirrorWrite",
                             ![w].buffer = rebuilt(fs[wr[w].path],
                                                   wr[w].data.description)]
    /\ UNCHANGED <<fs, rec, now, last, moved>>

\* what writeDescription does with an error of _writeEmbeddedMetadata
mirrorErrorThrown == "threw"

mirrorErrorCaught == "ok"

\* await fs.writeFile(filePath, newBuffer): the write or its error
WriteMirrorWrite(w) ==
    /\ wr[w].pc = "mirrorWrite"
    /\ \/ /\ fs' = [fs EXCEPT ![wr[w].path] = wr[w].buffer]
          /\ wr' = [wr EXCEPT ![w].pc = "idle", ![w].result = "ok",
                              ![w].mirror = "written"]
       \/ /\ wr' = [wr EXCEPT ![w].pc = "idle", ![w].result = mirrorErrorCaught,
                              ![w].mirror = "failed"]
          /\ UNCHANGED fs
    /\ UNCHANGED <<rec, now, last, moved>>

(***************************************************************************)
(* Specification of the segmented description: upserts from an empty       *)
(* description.                                                            *)
(***************************************************************************)
MaxUpserts == 3

\* preset names a caller can pass
SegNames ==
    { <<"P">>, <<"Q">>, <<"@", "P">>, <<" ", "Q">>, <<"P", "]">> }

\* description texts the recognition model can return (_parseAIResponse trims)
SegContents ==
    { <<"x">>, <<"y">>, <<>>, <<"x", "\n", "[", "@", "Q", ":", "]", "y">> }

SegIdle ==
    /\ segDesc = <<>>
    /\ segEst = <<>>
    /\ segN = 0

EmptyDir == [n \in Names |-> NoFile]

InitSeg ==
    /\ SegIdle
    /\ fs = EmptyDir
    /\ RecIdle
    /\ StoreIdle
    /\ PureIdle

Upsert(presetName, content) ==
    /\ segN < MaxUpserts
    /\ segEst' = UpsertSegments(segDesc, presetName, content)
    /\ segDesc' = UpsertDescription(segDesc, presetName, content)
    /\ segN' = segN + 1
    /\ UNCHANGED <<fs, rec, storeVars, pureVars>>

NextSeg ==
    \E presetName \in SegNames, content \in SegContents : Upsert(presetName, content)

SpecSeg == InitSeg /\ [][NextSeg]_vars

(***************************************************************************)
(* Specification of one directory being reconciled: any directory content, *)
(* then runs of reconcileOrphanedDescFiles with no other change.           *)
(***************************************************************************)
\* sidecar files found in a directory; only fileHash matters to the run
RecRecord(fileHash) ==
    JsonFile([description |-> <<"x">>, tags |-> <<>>, modelUsed |-> "manual-edit",
              createdAt |-> 1, updatedAt |-> 1, fileHash |-> fileHash])

RecMedia == {MediaBytes(b, TRUE, <<>>) : b \in 1..NumBases}

RecSidecars ==
    {BadJson, RecRecord(Undef)}
    \cup {RecRecord([kind |-> "sha256", of |-> m]) : m \in RecMedia}

\* a media path and its sidecar path: the file is missing and any sidecar is
\* left behind, or the file is there, alone or with the sidecar written for it
RecSlots ==
    {<<NoFile, s>> : s \in {NoFile} \cup RecSidecars}
    \cup {<<m, NoFile>> : m \in RecMedia}
    \cup {<<m, RecRecord([kind |-> "sha256", of |-> m])>> : m \in RecMedia}

\* the multimedia names the reconciled directory uses
RecPaths == {aPng, bJpg, cMp4, dPng}

InitRec ==
    /\ SegIdle
    /\ RecIdle
    /\ StoreIdle
    /\ PureIdle
    /\ \E slot \in [RecPaths -> RecSlots],
          other \in [OtherPaths -> {NoFile, MediaBytes(1, TRUE, <<>>)}] :
          fs = [n \in Names |->
                  IF n \in RecPaths THEN slot[n][1]
                  ELSE IF n \in OtherPaths THEN other[n]
                  ELSE IF originalNameOf(n) \in RecPaths THEN slot[originalNameOf(n)][2]
                  ELSE NoFile]

NextRec ==
    \/ ReconcileScan /\ UNCHANGED <<segVars, storeVars, pureVars>>
    \/ ReconcileMatch /\ UNCHANGED <<segVars, storeVars, pureVars>>

SpecRec == InitRec /\ [][NextRec]_vars

(***************************************************************************)
(* The public operations: the plugin's actions, recognition, delete, read  *)
(***************************************************************************)
WriteOps == {"set_desc", "update_tags", "recognize"}

\* _actionSetDesc: the object it hands to writeDescription
setDescObj(fsys, filePath, description, tags) ==
    DescObj("Manual", description, tags, "manual-edit")

actionSetDesc(w, filePath, description, tags) ==
    /\ Quiet
    /\ Call
    /\ BeginWrite(w, "set_desc", filePath,
                  setDescObj(fs, filePath, description, tags), now')

\* the tag list _actionUpdateTags computes for a mode
RECURSIVE AppendNew(_, _)
AppendNew(newTags, inputTags) ==
    IF inputTags = <<>> THEN newTags
    ELSE AppendNew(IF \E k \in DOMAIN newTags : newTags[k] = Head(inputTags)
                   THEN newTags ELSE Append(newTags, Head(inputTags)),
                   Tail(inputTags))

updatedTags(existingTags, mode, inputTags) ==
    IF mode = "append" THEN AppendNew(existingTags, inputTags)
    ELSE IF mode = "remove"
         THEN SelectSeq(existingTags,
                        LAMBDA t : ~\E k \in DOMAIN inputTags : inputTags[k] = t)
         ELSE inputTags

\* _actionUpdateTags: { ...existing, tags, modelUsed: existing.modelUsed || 'manual-edit' }
updateTagsObj(fsys, filePath, mode, inputTags) ==
    LET read == readDescription(fsys, filePath)
        existing == IF read = Null THEN EmptyObj ELSE read
    IN  [existing EXCEPT
           !.tags = updatedTags(existing.tags, mode, inputTags),
           !.modelUsed = IF existing.modelUsed = "" THEN "manual-edit"
                         ELSE existing.modelUsed]

actionUpdateTags(w, filePath, mode, inputTags) ==
    /\ Quiet
    /\ Call
    /\ BeginWrite(w, "update_tags", filePath,
                  updateTagsObj(fs, filePath, mode, inputTags), now')

\* _mergeTags
mergeTags(oldTags, newTags) ==
    IF newTags = <<>> THEN oldTags
    ELSE IF oldTags = <<>> THEN newTags
    ELSE AppendNew(AppendNew(<<>>, oldTags), newTags)

\* segments.has(cleanPresetName)
alreadyDescribedRaw(segments, presetName) == MapHas(segments, presetName)

alreadyDescribed(segments, presetName) ==
    MapHas(segments, cleanPresetName(presetName))

\* recognizeAndDescribe up to the request to the model: the skip when the
\* preset already has a segment, the refusals (file type, API URL or key
\* not configured), the read of the file
RecognizeCall(w, filePath, presetName, forceOverwrite, configured) ==
    /\ LET existing == readDescription(fs, filePath)
           segments == parseSegmentedDescription(
                           IF existing = Null THEN <<>> ELSE existing.description)
       IN  IF ~forceOverwrite /\ alreadyDescribed(segments, presetName)
           THEN /\ last' = [op |-> "recognize", path |-> filePath, result |-> existing]
                /\ wr' = wr
           ELSE IF ~isBase64Sendable(filePath) \/ ~configured \/ ~Exists(fs, filePath)
           THEN /\ last' = [op |-> "recognize", path |-> filePath, result |-> Null]
                /\ wr' = wr
           ELSE /\ last' = [op |-> "recognize", path |-> filePath, result |-> Null]
                /\ wr' = [wr EXCEPT ![w] =
                            [WrIdle EXCEPT !.pc = "fetch", !.op = "recognize",
                                           !.path = filePath,
                                           !.result = "pending",
                                           !.presetName = presetName]]
    /\ moved' = NoMove
    /\ UNCHANGED <<fs, rec>>

\* a call by a caller whose environment holds the API URL and key
RecognizeStart(w, filePath, presetName, forceOverwrite) ==
    /\ Quiet
    /\ Call
    /\ RecognizeCall(w, filePath, presetName, forceOverwrite, TRUE)

\* the object recognizeAndDescribe hands to writeDescription for a reply
recognizedObj(fsys, filePath, presetName, reply) ==
    LET read == readDescription(fsys, filePath)
        latestDesc == IF read = Null
                      THEN [EmptyObj EXCEPT !.originalMetadata = [kind |-> "object"]]
                      ELSE read
    IN  [latestDesc EXCEPT
           !.description = UpsertDescription(latestDesc.description, presetName,
                                             reply.description),
           !.tags = mergeTags(latestDesc.tags, reply.tags),
           !.modelUsed = "model"]

\* the request fails or its reply is empty: null
RecognizeFail(w) ==
    /\ wr[w].pc = "fetch"
    /\ wr' = [wr EXCEPT ![w].pc = "idle", ![w].result = "null"]
    /\ UNCHANGED <<fs, rec, now, last, moved>>

\* the reply arrives: steps 8 and 9
RecognizeReply(w, reply) ==
    /\ wr[w].pc = "fetch"
    /\ BeginWrite(w, "recognize", wr[w].path,
                  recognizedObj(fs, wr[w].path, wr[w].presetName, reply), now)
    /\ now' = now

\* fs.unlink(descPath) and what each delete does with its outcome: the
\* sidecar removed, ENOENT ignored, any other error logged by
\* deleteDescription and rethrown by _actionDeleteDesc
UnlinkedNothing(fsys, name) == fsys

Unlinked(fsys, name) == [fsys EXCEPT ![name] = NoFile]

deleteDescription(filePath) ==
    /\ Quiet
    /\ Call
    /\ \/ /\ Exists(fs, getDescPath(filePath))
          /\ fs' = Unlinked(fs, getDescPath(filePath))
          /\ last' = [op |-> "delete", path |-> filePath, result |-> [kind |-> "ok"]]
       \/ /\ ~Exists(fs, getDescPath(filePath))
          /\ fs' = fs
          /\ last' = [op |-> "delete", path |-> filePath, result |-> [kind |-> "ok"]]
       \/ /\ Exists(fs, getDescPath(filePath))
          /\ fs' = fs
          /\ last' = [op |-> "delete", path |-> filePath,
                      result |-> [kind |-> "logged"]]
    /\ moved' = NoMove
    /\ UNCHANGED <<rec, wr>>

actionDeleteDesc(filePath) ==
    /\ Quiet
    /\ Call
    /\ \/ /\ Exists(fs, getDescPath(filePath))
          /\ fs' = Unlinked(fs, getDescPath(filePath))
          /\ last' = [op |-> "delete", path |-> filePath, result |-> [kind |-> "ok"]]
       \/ /\ ~Exists(fs, getDescPath(filePath))
          /\ fs' = fs
          /\ last' = [op |-> "delete", path |-> filePath, result |-> [kind |-> "ok"]]
       \/ /\ Exists(fs, getDescPath(filePath))
          /\ fs' = fs
          /\ last' = [op |-> "delete", path |-> filePath,
                      result |-> [kind |-> "threw"]]
    /\ moved' = NoMove
    /\ UNCHANGED <<rec, wr>>

\* _actionGetDesc: readDescription
actionGetDesc(filePath) ==
    /\ Quiet
    /\ Call
    /\ last' = [op |-> "read", path |-> filePath,
                result |-> readDescription(fs, filePath)]
    /\ moved' = NoMove
    /\ UNCHANGED <<fs, rec, wr>>

(***************************************************************************)
(* The environment of the store: an actor outside the program that renames *)
(* a media file, keeping its bytes and its extension                       *)
(***************************************************************************)
\* the write invoked last has returned normally, and it was for filePath
WrittenLast(filePath) ==
    /\ last.op \in WriteOps
    /\ last.path = filePath
    /\ \E w \in Procs : /\ wr[w].pc = "idle" /\ wr[w].result = "ok"
                        /\ wr[w].op = last.op /\ wr[w].path = filePath

ExternalRename(oldPath, newPath) ==
    /\ Quiet
    /\ Call
    /\ Exists(fs, oldPath)
    /\ ~Exists(fs, newPath)
    /\ extname(newPath) = extname(oldPath)
    /\ fs' = Rename(fs, oldPath, newPath)
    /\ last' = [op |-> "rename", path |-> oldPath, result |-> Null]
    /\ moved' = IF WrittenLast(oldPath)
                THEN [kind |-> "moved", from |-> oldPath, to |-> newPath]
                ELSE NoMove
    /\ UNCHANGED <<rec, wr>>

(***************************************************************************)
(* Specification of the store: one caller at a time invokes set_desc,      *)
(* update_tags, recognition, delete, read and reconciliation on a          *)
(* directory of media files of one format                                  *)
(***************************************************************************)
Texts == {<<>>, <<"x">>, <<"x", " ">>}
TagLists == {<<>>, <<"t">>}
Modes == {"append", "remove", "replace"}
Presets == {<<"P">>, <<"Q">>}
Replies == {[description |-> <<"y">>, tags |-> <<"t">>]}

\* the caller of the sequential specification
Caller == "caller1"

\* the paths callers address: those of the directory's format
Addressed ==
    {p \in MediaPaths : \E q \in MediaPaths : extname(q) = extname(p) /\ Exists(fs, q)}

\* the second name of a format
Twin(p) == CHOOSE q \in MediaPaths : q # p /\ extname(q) = extname(p)

Init ==
    /\ SegIdle
    /\ RecIdle
    /\ StoreIdle
    /\ PureIdle
    /\ \E p \in {aPng, bJpg, cMp4} :
       \E side \in {NoFile, BadJson} :
          fs = [n \in Names |->
                  IF n = p THEN MediaBytes(1, TRUE, <<>>)
                  ELSE IF n = getDescPath(p) THEN side
                  ELSE NoFile]

Reconciling ==
    \/ /\ Quiet
       /\ Call
       /\ ReconcileScan
       /\ last' = [op |-> "reconcile", path |-> aPng, result |-> Null]
       /\ UNCHANGED <<wr, moved>>
    \/ /\ ReconcileMatch
       /\ UNCHANGED <<now, wr, last, moved>>

Next ==
    \/ \E p \in Addressed, d \in Texts, t \in TagLists :
          actionSetDesc(Caller, p, d, t) /\ UNCHANGED <<segVars, pureVars>>
    \/ \E p \in Addressed, m \in Modes, t \in TagLists :
          actionUpdateTags(Caller, p, m, t) /\ UNCHANGED <<segVars, pureVars>>
    \/ \E p \in Addressed, n \in Presets, f \in BOOLEAN :
          RecognizeStart(Caller, p, n, f) /\ UNCHANGED <<segVars, pureVars>>
    \/ RecognizeFail(Caller) /\ UNCHANGED <<segVars, pureVars>>
    \/ \E r \in Replies : RecognizeReply(Caller, r) /\ UNCHANGED <<segVars, pureVars>>
    \/ WriteHash(Caller) /\ UNCHANGED <<segVars, pureVars>>
    \/ WriteSidecar(Caller) /\ UNCHANGED <<segVars, pureVars>>
    \/ WriteMirrorRead(Caller) /\ UNCHANGED <<segVars, pureVars>>
    \/ WriteMirrorWrite(Caller) /\ UNCHANGED <<segVars, pureVars>>
    \/ \E p \in Addressed : deleteDescription(p) /\ UNCHANGED <<segVars, pureVars>>
    \/ \E p \in Addressed : actionDeleteDesc(p) /\ UNCHANGED <<segVars, pureVars>>
    \/ \E p \in Addressed : actionGetDesc(p) /\ UNCHANGED <<segVars, pureVars>>
    \/ \E p \in Addressed : ExternalRename(p, Twin(p)) /\ UNCHANGED <<segVars, pureVars>>
    \/ Reconciling /\ UNCHANGED <<segVars, pureVars>>

Spec == Init /\ [][Next]_vars

(***************************************************************************)
(* renderDescription and renderTagOnly.  A description object is Null or a *)
(* record of the description and tags strings ("" when the key is absent). *)
(* A returned string s is Str(s).  The labels of the path line, which the  *)
(* source writes in Chinese, are the one-element texts PathLabel ("file    *)
(* path") and NameLabel ("file name").                                     *)
(***************************************************************************)
Str(s) == [kind |-> "string", text |-> s]

PathLabel == <<"FILE-PATH">>
NameLabel == <<"FILE-NAME">>

\* String.prototype.toLowerCase() on the letters the model uses
LowerChar(c) ==
    CASE c = "A" -> "a" [] c = "L" -> "l" [] c = "P" -> "p" [] c = "Q" -> "q"
      [] OTHER -> c

toLowerCase(s) == [i \in 1..Len(s) |-> LowerChar(s[i])]

\* path.basename(filePath)
basename(filePath) ==
    LET slashes == {i \in 1..Len(filePath) : filePath[i] = "/"}
    IN  IF slashes = {} THEN filePath
        ELSE SubSeq(filePath, (CHOOSE i \in slashes : \A j \in slashes : j <= i) + 1,
                    Len(filePath))

\* requestedPresets.length === 0 || some p.toLowerCase() === 'all'
isAll(requestedPresets) ==
    \/ Len(requestedPresets) = 0
    \/ \E i \in 1..Len(requestedPresets) :
          toLowerCase(requestedPresets[i]) = <<"a", "l", "l">>

\* the test of the loop over the segments
shouldIncludeExact(requestedPresets, presetName) ==
    \/ isAll(requestedPresets)
    \/ \E i \in 1..Len(requestedPresets) :
          cleanPresetName(requestedPresets[i]) = presetName

shouldInclude(requestedPresets, presetName) ==
    \/ isAll(requestedPresets)
    \/ \E i \in 1..Len(requestedPresets) :
          toLowerCase(cleanPresetName(requestedPresets[i])) = toLowerCase(presetName)

\* renderedParts after the loop
renderedParts(descObj, requestedPresets) ==
    LET segments == parseSegmentedDescription(descObj.description)
        included == SelectSeq(segments,
                              LAMBDA e : shouldInclude(requestedPresets, e[1]))
    IN  [i \in 1..Len(included) |->
            <<"[">> \o included[i][1] \o <<"]", "\n">> \o included[i][2]]

\* Array.prototype.join
RECURSIVE Join(_, _)
Join(parts, sep) ==
    IF parts = <<>> THEN <<>>
    ELSE IF Len(parts) = 1 THEN parts[1]
    ELSE parts[1] \o sep \o Join(Tail(parts), sep)

\* the line naming the file, without the line break before it
pathLineFull(filePath, hideFilePath) ==
    <<"[">> \o PathLabel \o <<":", " ">> \o filePath \o <<"]">>

pathLine(filePath, hideFilePath) ==
    IF hideFilePath
    THEN <<"[">> \o NameLabel \o <<":", " ">> \o basename(filePath) \o <<"]">>
    ELSE <<"[">> \o PathLabel \o <<":", " ">> \o filePath \o <<"]">>

renderDescription(filePath, descObj, requestedPresets, hideFilePath) ==
    IF descObj = Null \/ descObj.description = <<>> THEN Null
    ELSE IF parseSegmentedDescription(descObj.description) = <<>> THEN Null
    ELSE IF renderedParts(descObj, requestedPresets) = <<>> THEN Null
    ELSE Str(Join(renderedParts(descObj, requestedPresets), <<"\n", "\n">>)
             \o <<"\n">> \o pathLine(filePath, hideFilePath)
             \o IF Trim(descObj.tags) # <<>>
                THEN <<"\n", "T", "a", "g", ":", " ">> \o Trim(descObj.tags)
                ELSE <<>>)

renderTagOnlyUntrimmed(filePath, descObj, hideFilePath) ==
    IF descObj = Null THEN Null
    ELSE IF descObj.tags # <<>>
    THEN Str(<<"T", "a", "g", ":", " ">> \o Trim(descObj.tags) \o <<"\n">>
             \o pathLine(filePath, hideFilePath))
    ELSE Str(<<>>)

renderTagOnly(filePath, descObj, hideFilePath) ==
    IF descObj = Null THEN Null
    ELSE IF Trim(descObj.tags) # <<>>
    THEN Str(<<"T", "a", "g", ":", " ">> \o Trim(descObj.tags) \o <<"\n">>
             \o pathLine(filePath, hideFilePath))
    ELSE Str(<<>>)

(***************************************************************************)
(* Specification of rendering: one call of renderDescription or of         *)
(* renderTagOnly on arguments drawn from small sets                        *)
(***************************************************************************)
MaxRequested == 2

RenderDescriptions ==
    { <<>>, <<" ">>, <<"x">>,
      <<"[", "@", "P", ":", "]">>,
      <<"[", "@", "P", ":", "]", "x">>,
      <<"[", "@", "P", ":", "]", "x", "[", "@", "q", ":", "]", "y">>,
      <<"[", "@", "P", ":", "]", "x", "[", "@", "q", ":", "]", "y",
        "[", "@", "p", ":", "]", "z">>,
      <<"[", "@", "@", "p", ":", "]", "x", "[", "@", "P", ":", "]", "y">> }

RenderTags == { <<>>, <<" ">>, <<"t">>, <<" ", "t", " ">> }

RenderObjs ==
    {Null} \cup [description : RenderDescriptions, tags : RenderTags]

RequestedNames ==
    { <<"A", "l", "l">>, <<"a", "L", "L">>, <<"@", "a", "l", "l">>,
      <<"P">>, <<"@", "p">>, <<"@", "@", "p">>, <<"Q">> }

RequestedLists ==
    UNION {[1..n -> RequestedNames] : n \in 0..MaxRequested}

RenderPaths == { <<"d", "/", "a">>, <<"a">> }

InitRender ==
    /\ SegIdle
    /\ fs = EmptyDir
    /\ RecIdle
    /\ StoreIdle
    /\ img = NoImage
    /\ sc = NoScan
    /\ bt = NoBatch
    /\ \E filePath \in RenderPaths, descObj \in RenderObjs,
          requestedPresets \in RequestedLists, hideFilePath \in BOOLEAN :
          rn = [pc |-> "called", fn |-> "none", filePath |-> filePath,
                descObj |-> descObj, requestedPresets |-> requestedPresets,
                hideFilePath |-> hideFilePath, parts |-> <<>>, out |-> Null]

RenderDescription ==
    /\ rn.pc = "called"
    /\ rn' = [rn EXCEPT
                !.pc = "returned",
                !.fn = "renderDescription",
                !.parts = IF rn.descObj = Null \/ rn.descObj.description = <<>>
                          THEN <<>>
                          ELSE renderedParts(rn.descObj, rn.requestedPresets),
                !.out = renderDescription(rn.filePath, rn.descObj,
                                          rn.requestedPresets, rn.hideFilePath)]
    /\ UNCHANGED <<segVars, fs, rec, storeVars, img, sc, bt>>

RenderTagOnly ==
    /\ rn.pc = "called"
    /\ rn' = [rn EXCEPT
                !.pc = "returned",
                !.fn = "renderTagOnly",
                !.out = renderTagOnly(rn.filePath, rn.descObj, rn.hideFilePath)]
    /\ UNCHANGED <<segVars, fs, rec, storeVars, img, sc, bt>>

NextRender == RenderDescription \/ RenderTagOnly

SpecRender == InitRender /\ [][NextRender]_vars

(***************************************************************************)
(* Buffers.  A buffer is a sequence of tokens and offsets count tokens     *)
(* from 0, as Buffer offsets count bytes.                                  *)
(***************************************************************************)
At(buffer, offset) == buffer[offset + 1]

\* buffer.slice(start, end)
Slice(buffer, start, end) ==
    SubSeq(buffer, start + 1, IF end > Len(buffer) THEN Len(buffer) ELSE end)

\* buffer.indexOf(token, from), -1 when the token does not occur
IndexOf(buffer, token, from) ==
    LET at == {i \in from..(Len(buffer) - 1) : At(buffer, i) = token}
    IN  IF at = {} THEN -1 ELSE MinOf(at)

\* Buffer.concat(parts)
RECURSIVE Concat(_)
Concat(parts) ==
    IF parts = <<>> THEN <<>> ELSE Head(parts) \o Concat(Tail(parts))

\* a data byte; a keyword is carried by one token
Byte(c) == [b |-> "byte", c |-> c]
NulByte == Byte("NUL")
OneByte == Byte("SOH")

\* Buffer.from(text, 'utf-8') and buffer.toString('utf-8')
BytesOf(text) == [i \in 1..Len(text) |-> Byte(text[i])]
TextOf(bytes) == [i \in 1..Len(bytes) |-> bytes[i].c]

(***************************************************************************)
(* PNG codec.  The tokens of a PNG buffer are the 8-byte signature, and    *)
(* for every chunk its 4-byte length, its 4-byte type, its data bytes and  *)
(* its 4-byte CRC: the 8 bytes before the data are 2 tokens, the 12 bytes  *)
(* around it are 3, the signature is 1.                                    *)
(***************************************************************************)
PNG_SIGNATURE == [b |-> "png-signature"]
U32(n) == [b |-> "u32", n |-> n]
ChunkType(t) == [b |-> "type", t |-> t]

\* _crc32 of the type and data bytes
crc32(type, data) == [b |-> "crc", t |-> type, data |-> data]

\* the zlib stream of a text, and zlib.inflateSync with its catch
Deflated(text) == <<[b |-> "byte", c |-> "zlib", text |-> text]>>
inflateOrRaw(bytes) ==
    IF Len(bytes) = 1 /\ bytes[1].c = "zlib" THEN bytes[1].text ELSE TextOf(bytes)

Description == <<"Description">>
Comment == <<"Comment">>

hasPngSignature(buffer) == Len(buffer) >= 1 /\ buffer[1] = PNG_SIGNATURE

\* the while loop of _parsePngChunks
RECURSIVE PngChunksFrom(_, _, _)
PngChunksFrom(buffer, offset, chunks) ==
    IF ~(offset < Len(buffer)) \/ offset + 2 > Len(buffer) THEN chunks
    ELSE LET length == At(buffer, offset).n
             type == At(buffer, offset + 1).t
         IN  IF offset + 3 + length > Len(buffer) THEN chunks
             ELSE PngChunksFrom(buffer, offset + 3 + length,
                      Append(chunks,
                             [type |-> type,
                              data |-> Slice(buffer, offset + 2, offset + 2 + length),
                              offset |-> offset]))

\* _parsePngChunks: throws without the signature
parsePngChunks(buffer) ==
    IF ~hasPngSignature(buffer) THEN [threw |-> TRUE, chunks |-> <<>>]
    ELSE [threw |-> FALSE, chunks |-> PngChunksFrom(buffer, 1, <<>>)]

\* _readTEXtChunk
readTEXtChunk(data) ==
    LET nullIdx == IndexOf(data, NulByte, 0)
    IN  IF nullIdx < 0 THEN Null
        ELSE [keyword |-> TextOf(Slice(data, 0, nullIdx)),
              text |-> TextOf(Slice(data, nullIdx + 1, Len(data)))]

\* _readITXtChunk
readITXtChunk(data) ==
    LET nullIdx == IndexOf(data, NulByte, 0)
        pos == nullIdx + 1
        langEnd == IndexOf(data, NulByte, pos + 2)
        transEnd == IndexOf(data, NulByte, langEnd + 1)
        rest == Slice(data, transEnd + 1, Len(data))
    IN  IF nullIdx < 0 THEN Null
        ELSE IF pos + 2 > Len(data) THEN Null
        ELSE IF langEnd < 0 THEN Null
        ELSE IF transEnd < 0 THEN Null
        ELSE [keyword |-> TextOf(Slice(data, 0, nullIdx)),
              text |-> IF At(data, pos) = OneByte /\ At(data, pos + 1) = NulByte
                       THEN inflateOrRaw(rest)
                       ELSE TextOf(rest)]

\* _buildITXtChunkData
buildITXtChunkData(keyword, text) ==
    BytesOf(keyword) \o <<NulByte>> \o <<NulByte, NulByte>>
    \o <<NulByte>> \o <<NulByte>> \o BytesOf(text)

\* _buildPngChunk
buildPngChunk(type, data) ==
    <<U32(Len(data)), ChunkType(type)>> \o data \o <<crc32(type, data)>>

\* the for loop of _readPngEmbeddedMetadata over the chunks
RECURSIVE PngFirstText(_)
PngFirstText(chunks) ==
    IF chunks = <<>> THEN Null
    ELSE LET chunk == Head(chunks)
             parsed == IF chunk.type = "tEXt" THEN readTEXtChunk(chunk.data)
                       ELSE IF chunk.type = "iTXt" THEN readITXtChunk(chunk.data)
                       ELSE Null
         IN  IF parsed # Null /\ parsed.keyword \in {Description, Comment}
                /\ parsed.text # <<>>
             THEN EmbeddedView("Embedded", parsed.text)
             ELSE PngFirstText(Tail(chunks))

\* _readPngEmbeddedMetadata on the bytes fs.readFile returned
readPngEmbeddedBuffer(buffer) ==
    IF parsePngChunks(buffer).threw THEN embeddedErrorCaught
    ELSE PngFirstText(parsePngChunks(buffer).chunks)

\* the while loop of _writePngEmbeddedMetadata: parts and replaced
RECURSIVE PngRebuild(_, _, _, _, _)
PngRebuild(buffer, newChunk, offset, parts, replaced) ==
    IF ~(offset < Len(buffer)) \/ offset + 2 > Len(buffer)
    THEN [parts |-> parts, replaced |-> replaced]
    ELSE LET length == At(buffer, offset).n
             type == At(buffer, offset + 1).t
             chunkTotalLength == 3 + length
             chunkBuf == Slice(buffer, offset, offset + chunkTotalLength)
             data == Slice(buffer, offset + 2, offset + 2 + length)
             nullIdx == IndexOf(data, NulByte, 0)
         IN  IF offset + chunkTotalLength > Len(buffer)
             THEN [parts |-> parts, replaced |-> replaced]
             ELSE IF /\ type \in {"iTXt", "tEXt"}
                     /\ ~replaced
                     /\ nullIdx >= 0
                     /\ TextOf(Slice(data, 0, nullIdx)) = Description
             THEN PngRebuild(buffer, newChunk, offset + chunkTotalLength,
                             Append(parts, newChunk), TRUE)
             ELSE PngRebuild(buffer, newChunk, offset + chunkTotalLength,
                             Append(parts, chunkBuf), replaced)

\* parts.splice(2, 0, newChunk), or parts.push(newChunk)
pngInsertLast(parts, newChunk) == Append(parts, newChunk)

pngInsert(parts, newChunk) ==
    IF Len(parts) >= 2
    THEN SubSeq(parts, 1, 2) \o <<newChunk>> \o SubSeq(parts, 3, Len(parts))
    ELSE Append(parts, newChunk)

\* _writePngEmbeddedMetadata on the bytes fs.readFile returned: the buffer
\* it hands to fs.writeFile, if it writes
writePngEmbeddedBuffer(buffer, description) ==
    IF ~hasPngSignature(buffer) THEN [written |-> FALSE, buffer |-> buffer]
    ELSE IF Trim(description) = <<>> THEN [written |-> FALSE, buffer |-> buffer]
    ELSE LET newChunk == buildPngChunk("iTXt",
                                       buildITXtChunkData(Description, description))
             loop == PngRebuild(buffer, newChunk, 1, <<<<PNG_SIGNATURE>>>>, FALSE)
         IN  [written |-> TRUE,
              buffer |-> Concat(IF loop.replaced THEN loop.parts
                                ELSE pngInsert(loop.parts, newChunk))]

(***************************************************************************)
(* Specification of the PNG codec: description writes and reads on a PNG   *)
(* file drawn from a small set                                             *)
(***************************************************************************)
MaxChunks == 2
MaxCodecWrites == 2

TextChunk(keyword, text) ==
    buildPngChunk("tEXt", BytesOf(keyword) \o <<NulByte>> \o BytesOf(text))

\* the chunks a file can hold between IHDR and IDAT
PngChunkKinds ==
    { TextChunk(Description, <<"o">>),
      TextChunk(Description, <<>>),
      TextChunk(Comment, <<"c">>),
      TextChunk(<<"Title">>, <<"t">>),
      buildPngChunk("iTXt", buildITXtChunkData(Description, <<"o">>)),
      buildPngChunk("iTXt", BytesOf(Comment) \o <<NulByte, OneByte, NulByte,
                                                  NulByte, NulByte>>
                            \o Deflated(<<"k">>)),
      <<U32(1), ChunkType("zzZz"), Byte("z"), crc32("zzZz", <<>>)>> }

\* bytes after the last whole chunk: none, or a chunk cut short
PngTails == { <<>>, <<U32(0)>>, <<U32(2), ChunkType("IDAT"), Byte("d")>> }

PngFiles ==
    { <<PNG_SIGNATURE>> \o buildPngChunk("IHDR", <<Byte("h")>>)
        \o Concat(middle) \o buildPngChunk("IDAT", <<Byte("d")>>)
        \o buildPngChunk("IEND", <<>>) \o tail :
      middle \in UNION {[1..n -> PngChunkKinds] : n \in 0..MaxChunks},
      tail \in PngTails }

CodecTexts == { <<"x">>, <<" ", "x">>, <<"y", " ">>, <<" ">> }

InitPng ==
    /\ SegIdle
    /\ fs = EmptyDir
    /\ RecIdle
    /\ StoreIdle
    /\ rn = NoRender
    /\ sc = NoScan
    /\ bt = NoBatch
    /\ \E buffer \in PngFiles :
          img = [pc |-> "file", format |-> "png", buffer |-> buffer,
                 before |-> buffer, text |-> <<>>, writes |-> 0, read |-> Null]

\* _writePngEmbeddedMetadata(filePath, { description })
PngWrite(description) ==
    /\ img.pc \in {"file", "written", "skipped", "read"}
    /\ img.writes < MaxCodecWrites
    /\ LET call == writePngEmbeddedBuffer(img.buffer, description)
       IN  img' = IF call.written
                  THEN [img EXCEPT !.pc = "written", !.buffer = call.buffer,
                                   !.before = img.buffer, !.text = description,
                                   !.writes = img.writes + 1]
                  ELSE [img EXCEPT !.pc = "skipped"]
    /\ UNCHANGED <<segVars, fs, rec, storeVars, rn, sc, bt>>

\* _readPngEmbeddedMetadata(filePath)
PngRead ==
    /\ img.pc \in {"file", "written", "skipped"}
    /\ img' = [img EXCEPT !.pc = "read", !.read = readPngEmbeddedBuffer(img.buffer)]
    /\ UNCHANGED <<segVars, fs, rec, storeVars, rn, sc, bt>>

NextPng ==
    \/ \E description \in CodecTexts : PngWrite(description)
    \/ PngRead

SpecPng == InitPng /\ [][NextPng]_vars

(***************************************************************************)
(* JPEG codec.  A JPEG buffer is a sequence of bytes, each a number in     *)
(* 0..255: 0xFF is 255, SOI 0xD8 is 216, EOI 0xD9 is 217, SOS 0xDA is 218, *)
(* COM 0xFE is 254, RST0..RST7 0xD0..0xD7 are 208..215, TEM is 1.          *)
(***************************************************************************)
\* the UTF-8 bytes of the characters in use
CharCodes == { <<" ", 32>>, <<"c", 99>>, <<"o", 111>>, <<"x", 120>>, <<"y", 121>> }

\* Buffer.from(text, 'utf-8')
utf8Encode(text) ==
    [i \in 1..Len(text) |-> (CHOOSE p \in CharCodes : p[1] = text[i])[2]]

\* buffer.toString('utf-8')
utf8Decode(bytes) ==
    [i \in 1..Len(bytes) |->
        IF \E p \in CharCodes : p[2] = bytes[i]
        THEN (CHOOSE p \in CharCodes : p[2] = bytes[i])[1]
        ELSE "?"]

\* buffer.readUInt16BE(offset) and the two bytes writeUInt16BE stores
readUInt16BE(buffer, offset) == At(buffer, offset) * 256 + At(buffer, offset + 1)
UInt16BE(n) == <<n \div 256, n % 256>>

hasSoi(buffer) ==
    ~(Len(buffer) < 2 \/ At(buffer, 0) # 255 \/ At(buffer, 1) # 216)

\* SOI, EOI, RST0-RST7, TEM
isStandalone(markerType) ==
    \/ markerType = 216
    \/ markerType = 217
    \/ (markerType >= 208 /\ markerType <= 215)
    \/ markerType = 1

JpegMarker(marker, offset, length, data, isSOS) ==
    [marker |-> marker, offset |-> offset, length |-> length, data |-> data,
     isSOS |-> isSOS]

\* the while loop of _parseJpegMarkers
RECURSIVE JpegMarkersFrom(_, _, _)
JpegMarkersFrom(buffer, offset, markers) ==
    IF ~(offset < Len(buffer) - 1) THEN markers
    ELSE IF At(buffer, offset) # 255
    THEN JpegMarkersFrom(buffer, offset + 1, markers)
    ELSE LET markerType == At(buffer, offset + 1)
             segLength == readUInt16BE(buffer, offset + 2)
         IN  IF markerType = 255
             THEN JpegMarkersFrom(buffer, offset + 1, markers)
             ELSE IF isStandalone(markerType)
             THEN IF markerType = 217
                  THEN Append(markers, JpegMarker(markerType, offset, 2, <<>>, FALSE))
                  ELSE JpegMarkersFrom(buffer, offset + 2,
                           Append(markers,
                                  JpegMarker(markerType, offset, 2, <<>>, FALSE)))
             ELSE IF markerType = 218
             THEN Append(markers,
                         JpegMarker(markerType, offset, Len(buffer) - offset, <<>>, TRUE))
             ELSE IF offset + 3 >= Len(buffer) THEN markers
             ELSE IF segLength < 2 \/ offset + 2 + segLength > Len(buffer)
             THEN markers
             ELSE JpegMarkersFrom(buffer, offset + 2 + segLength,
                      Append(markers,
                             JpegMarker(markerType, offset, 2 + segLength,
                                        Slice(buffer, offset + 4, offset + 2 + segLength),
                                        FALSE)))

\* _parseJpegMarkers: throws without SOI
parseJpegMarkers(buffer) ==
    IF ~hasSoi(buffer) THEN [threw |-> TRUE, markers |-> <<>>]
    ELSE [threw |-> FALSE, markers |-> JpegMarkersFrom(buffer, 2, <<>>)]

\* _readJpegComment
RECURSIVE readJpegComment(_)
readJpegComment(markers) ==
    IF markers = <<>> THEN Null
    ELSE IF Head(markers).marker = 254 /\ Len(Head(markers).data) > 0
    THEN Str(Trim(utf8Decode(Head(markers).data)))
    ELSE readJpegComment(Tail(markers))

\* _readJpegEmbeddedMetadata on the bytes fs.readFile returned; the files
\* in use carry no EXIF ImageDescription, so the fallback finds nothing
readJpegEmbeddedBuffer(buffer) ==
    LET comment == readJpegComment(parseJpegMarkers(buffer).markers)
    IN  IF parseJpegMarkers(buffer).threw THEN embeddedErrorCaught
        ELSE IF comment # Null /\ comment.text # <<>>
        THEN EmbeddedView("Embedded", comment.text)
        ELSE Null

\* an old COM segment met by the writer: the new marker takes the place of
\* the first, the others are skipped
comPartsKeepOld(parts, comMarker, old, replaced) ==
    IF replaced THEN Append(parts, old) ELSE Append(parts, comMarker)

comParts(parts, comMarker, old, replaced) ==
    IF replaced THEN parts ELSE Append(parts, comMarker)

\* SOS met by the writer: the new marker goes before it unless already placed
sosPartsFirst(parts, comMarker, replaced) ==
    IF replaced THEN parts ELSE <<Head(parts), comMarker>> \o Tail(parts)

sosParts(parts, comMarker, replaced) ==
    IF replaced THEN parts ELSE Append(parts, comMarker)

\* the while loop of _writeJpegEmbeddedMetadata: parts and replaced
RECURSIVE JpegRebuild(_, _, _, _, _)
JpegRebuild(buffer, comMarker, offset, parts, replaced) ==
    IF ~(offset < Len(buffer) - 1) THEN [parts |-> parts, replaced |-> replaced]
    ELSE IF At(buffer, offset) # 255
    THEN [parts |-> Append(parts, Slice(buffer, offset, Len(buffer))),
          replaced |-> replaced]
    ELSE LET markerType == At(buffer, offset + 1)
             segLength == readUInt16BE(buffer, offset + 2)
             segTotal == 2 + segLength
         IN  IF markerType = 255
             THEN JpegRebuild(buffer, comMarker, offset + 1, parts, replaced)
             ELSE IF markerType = 216
             THEN JpegRebuild(buffer, comMarker, offset + 2, parts, replaced)
             ELSE IF markerType = 217
             THEN [parts |-> Append(parts, Slice(buffer, offset, Len(buffer))),
                   replaced |-> replaced]
             ELSE IF (markerType >= 208 /\ markerType <= 215) \/ markerType = 1
             THEN JpegRebuild(buffer, comMarker, offset + 2,
                              Append(parts, Slice(buffer, offset, offset + 2)),
                              replaced)
             ELSE IF markerType = 218
             THEN [parts |-> Append(sosParts(parts, comMarker, replaced),
                                    Slice(buffer, offset, Len(buffer))),
                   replaced |-> TRUE]
             ELSE IF offset + 3 >= Len(buffer)
             THEN [parts |-> Append(parts, Slice(buffer, offset, Len(buffer))),
                   replaced |-> replaced]
             ELSE IF segLength < 2 \/ offset + 2 + segLength > Len(buffer)
             THEN [parts |-> Append(parts, Slice(buffer, offset, Len(buffer))),
                   replaced |-> replaced]
             ELSE IF markerType = 254
             THEN JpegRebuild(buffer, comMarker, offset + segTotal,
                              comParts(parts, comMarker,
                                       Slice(buffer, offset, offset + segTotal),
                                       replaced),
                              TRUE)
             ELSE JpegRebuild(buffer, comMarker, offset + segTotal,
                              Append(parts, Slice(buffer, offset, offset + segTotal)),
                              replaced)

\* the COM marker segment of a text
ComMarker(textBuf) == <<255, 254>> \o UInt16BE(Len(textBuf) + 2) \o textBuf

\* _writeJpegEmbeddedMetadata on the bytes fs.readFile returned: the buffer
\* it hands to fs.writeFile, if it writes
writeJpegEmbeddedBuffer(buffer, description) ==
    IF ~hasSoi(buffer) THEN [written |-> FALSE, buffer |-> buffer]
    ELSE IF Trim(description) = <<>> THEN [written |-> FALSE, buffer |-> buffer]
    ELSE IF Len(utf8Encode(description)) + 2 > 65535
    THEN [written |-> FALSE, buffer |-> buffer]
    ELSE LET comMarker == ComMarker(utf8Encode(description))
             loop == JpegRebuild(buffer, comMarker, 2, <<<<255, 216>>>>, FALSE)
         IN  [written |-> TRUE,
              buffer |-> Concat(IF loop.replaced THEN loop.parts
                                ELSE <<Head(loop.parts), comMarker>>
                                     \o Tail(loop.parts))]

(***************************************************************************)
(* Specification of the JPEG codec: description writes and reads on a JPEG *)
(* file drawn from a small set                                             *)
(***************************************************************************)
MaxSegments == 2

\* what a file can hold between SOI and its end: APP0, a DQT whose data
\* looks like a COM marker, COM segments (one empty), APP1 after a fill
\* byte, and, in damaged files, a stray byte, RST0 or a second SOI
JpegSegmentKinds ==
    { <<255, 224, 0, 3, 106>>,
      <<255, 219, 0, 4, 255, 254>>,
      <<255, 254, 0, 3, 111>>,
      <<255, 254, 0, 3, 99>>,
      <<255, 254, 0, 2>>,
      <<255, 255, 225, 0, 3, 101>>,
      <<0>>,
      <<255, 208>>,
      <<255, 216>> }

\* the end of a file: SOS with entropy-coded data and EOI, EOI without SOS,
\* a segment cut short
JpegEnds ==
    { <<255, 218, 0, 2, 7, 255, 254, 0, 3, 111, 255, 217>>,
      <<255, 217>>,
      <<255, 224, 0, 9, 1>> }

JpegFiles ==
    { <<255, 216>> \o Concat(segments) \o end :
      segments \in UNION {[1..n -> JpegSegmentKinds] : n \in 0..MaxSegments},
      end \in JpegEnds }

InitJpeg ==
    /\ SegIdle
    /\ fs = EmptyDir
    /\ RecIdle
    /\ StoreIdle
    /\ rn = NoRender
    /\ sc = NoScan
    /\ bt = NoBatch
    /\ \E buffer \in JpegFiles :
          img = [pc |-> "file", format |-> "jpeg", buffer |-> buffer,
                 before |-> buffer, text |-> <<>>, writes |-> 0, read |-> Null]

\* _writeJpegEmbeddedMetadata(filePath, { description })
JpegWrite(description) ==
    /\ img.pc \in {"file", "written", "skipped", "read"}
    /\ img.writes < MaxCodecWrites
    /\ LET call == writeJpegEmbeddedBuffer(img.buffer, description)
       IN  img' = IF call.written
                  THEN [img EXCEPT !.pc = "written", !.buffer = call.buffer,
                                   !.before = img.buffer, !.text = description,
                                   !.writes = img.writes + 1]
                  ELSE [img EXCEPT !.pc = "skipped"]
    /\ UNCHANGED <<segVars, fs, rec, storeVars, rn, sc, bt>>

\* _readJpegEmbeddedMetadata(filePath)
JpegRead ==
    /\ img.pc \in {"file", "written", "skipped"}
    /\ img' = [img EXCEPT !.pc = "read", !.read = readJpegEmbeddedBuffer(img.buffer)]
    /\ UNCHANGED <<segVars, fs, rec, storeVars, rn, sc, bt>>

NextJpeg ==
    \/ \E description \in CodecTexts : JpegWrite(description)
    \/ JpegRead

SpecJpeg == InitJpeg /\ [][NextJpeg]_vars

(***************************************************************************)
(* Specification of scanDirectory: one call on a directory read drawn from *)
(* a small set                                                             *)
(***************************************************************************)
\* the names a scanned directory can hold, in one fs.readdir order
ScanListing ==
    << nTxt, zZip, aPng, mMD, getDescPath(aPng), rBare, gPNG, hPng, Bpng >>

\* the names that can also be a subdirectory
ScanDirNames == {aPng, nTxt}

Reverse(seq) == [i \in 1..Len(seq) |-> seq[Len(seq) + 1 - i]]

ScanReads ==
    { [exists |-> exists,
       entries |-> [i \in 1..Len(listed) |->
                      [name |-> listed[i], isFile |-> listed[i] \notin dirs]]] :
      exists \in BOOLEAN,
      listed \in { SelectSeq(order, LAMBDA n : n \in present) :
                     order \in {ScanListing, Reverse(ScanListing)},
                     present \in SUBSET {ScanListing[i] : i \in 1..Len(ScanListing)} },
      dirs \in SUBSET ScanDirNames }

InitScan ==
    /\ SegIdle
    /\ fs = EmptyDir
    /\ RecIdle
    /\ StoreIdle
    /\ rn = NoRender
    /\ img = NoImage
    /\ bt = NoBatch
    /\ \E dir \in ScanReads :
          /\ dir.exists \/ dir.entries = <<>>
          /\ sc = [pc |-> "called", dir |-> dir,
                   out |-> [textFiles |-> <<>>, multimediaFiles |-> <<>>]]

\* scanDirectory(dirPath)
ScanDirectory ==
    /\ sc.pc = "called"
    /\ sc' = [sc EXCEPT !.pc = "returned", !.out = scanDirectory(sc.dir)]
    /\ UNCHANGED <<segVars, fs, rec, storeVars, rn, img, bt>>

NextScan == ScanDirectory

SpecScan == InitScan /\ [][NextScan]_vars

(***************************************************************************)
(* Specification of one directory handled as a whole by one caller:        *)
(* _actionListFiles, or recognizeBatch with a preset, on a directory that  *)
(* holds well-formed and malformed images, a video and a text file, with   *)
(* and without sidecars                                                    *)
(***************************************************************************)
\* fileType of _actionListFiles
fileTypeOf(f) ==
    IF extname(f) \in {"png", "jpg", "jpeg", "gif", "webp", "bmp", "svg", "ico",
                       "tiff", "tif", "avif"} THEN "image"
    ELSE IF extname(f) \in {"mp4", "avi", "mov", "mkv", "webm", "flv"} THEN "video"
    ELSE IF extname(f) \in {"mp3", "wav", "ogg", "flac", "aac", "m4a"} THEN "audio"
    ELSE IF extname(f) = "pdf" THEN "pdf"
    ELSE "unknown"

\* the entry _actionListFiles pushes for a multimedia file
listEntry(fsys, f) ==
    LET desc == readDescription(fsys, f)
    IN  [name |-> f,
         type |-> fileTypeOf(f),
         hasDescription |-> desc # Null /\ desc.description # <<>>,
         presetName |-> IF desc = Null \/ desc.presetName = "" THEN Null
                        ELSE Str(desc.presetName),
         hasTags |-> desc # Null /\ desc.tags # <<>>]

\* the files _actionListFiles returns after reconciliation, or the error a
\* readDescription raised
listFiles(fsys) ==
    LET scan == scanDirectory(DirRead(fsys))
        text == scan.textFiles
        media == scan.multimediaFiles
    IN  IF \E i \in 1..Len(media) : readDescription(fsys, media[i]) = Threw
        THEN Threw
        ELSE [kind |-> "files",
              files |-> [i \in 1..Len(text) |->
                           [name |-> text[i], type |-> "text",
                            hasDescription |-> FALSE]]
                        \o [i \in 1..Len(media) |-> listEntry(fsys, media[i])]]

ListReconcile ==
    /\ bt.pc = "called"
    /\ bt.op = "list"
    /\ ReconcileScan
    /\ bt' = [bt EXCEPT !.pc = "reconciling"]
    /\ UNCHANGED <<segVars, storeVars, rn, img, sc>>

ListMatch ==
    /\ bt.pc = "reconciling"
    /\ ReconcileMatch
    /\ UNCHANGED <<segVars, storeVars, pureVars>>

ListFiles ==
    /\ bt.pc = "reconciling"
    /\ rec.pc = "done"
    /\ bt' = [bt EXCEPT !.pc = "returned", !.out = listFiles(fs)]
    /\ UNCHANGED <<segVars, fs, rec, storeVars, rn, img, sc>>

\* the targets of recognizeBatch
targetsOf(multimediaFiles, specifiedFiles) ==
    IF Len(specifiedFiles) > 0
    THEN SelectSeq(multimediaFiles,
                   LAMBDA f : \E k \in 1..Len(specifiedFiles) : specifiedFiles[k] = f)
    ELSE multimediaFiles

\* the for loop of recognizeBatch after recognizeAndDescribe returned desc
nextTargetStop(b, desc) == IF desc = Null THEN Len(b.targets) + 1 ELSE b.i + 1

nextTarget(b, desc) == b.i + 1

\* if (desc) results.set(fileName, desc), and the loop's next round
Collect(b, desc) ==
    [b EXCEPT !.results = IF desc # Null THEN Append(@, <<b.targets[b.i], desc>>)
                          ELSE @,
              !.desc = Null,
              !.i = nextTarget(b, desc),
              !.pc = IF nextTarget(b, desc) > Len(b.targets) THEN "returned"
                     ELSE "file"]

\* scanDirectory and the choice of the targets
BatchScan ==
    /\ bt.pc = "called"
    /\ bt.op = "batch"
    /\ LET targets == targetsOf(scanDirectory(DirRead(fs)).multimediaFiles,
                                bt.specifiedFiles)
       IN  bt' = [bt EXCEPT !.targets = targets,
                            !.pc = IF targets = <<>> THEN "returned" ELSE "file"]
    /\ UNCHANGED <<segVars, fs, rec, storeVars, rn, img, sc>>

\* recognizeAndDescribe is called for the next target
BatchFile ==
    /\ bt.pc = "file"
    /\ RecognizeCall(Caller, bt.targets[bt.i], bt.presetName, bt.forceOverwrite,
                     bt.configured)
    /\ now' = now
    /\ LET b == [bt EXCEPT !.attempted = Append(@, bt.targets[bt.i])]
       IN  bt' = IF wr'[Caller].pc = "fetch" THEN [b EXCEPT !.pc = "await"]
                 ELSE Collect(b, last'.result)
    /\ UNCHANGED <<segVars, rn, img, sc>>

\* the reply of the model arrives for the target
BatchReply(reply) ==
    /\ bt.pc = "await"
    /\ RecognizeReply(Caller, reply)
    /\ bt' = [bt EXCEPT !.desc = recognizedObj(fs, wr[Caller].path,
                                              wr[Caller].presetName, reply)]
    /\ UNCHANGED <<segVars, rn, img, sc>>

\* a further step of the recognition of the target; when it ends,
\* recognizeAndDescribe returns descObj, or null from its catch
BatchAwait(step) ==
    /\ bt.pc = "await"
    /\ step
    /\ bt' = IF wr'[Caller].pc = "idle"
             THEN Collect(bt, IF wr'[Caller].result = "ok" THEN bt.desc ELSE Null)
             ELSE bt
    /\ UNCHANGED <<segVars, rn, img, sc>>

\* a sidecar found in the directory: segment P holding "o", written for a
\* file with the bytes of the well-formed a.png
SegmentP == <<"[", "@", "P", ":", "]", "\n", "o">>

BatchSidecar ==
    JsonFile([DescObj("", SegmentP, <<"s">>, "model") EXCEPT
                !.createdAt = 1, !.updatedAt = 1,
                !.fileHash = [kind |-> "sha256", of |-> MediaBytes(1, TRUE, <<>>)]])

BatchPaths == {aPng, bJpg, cMp4}

BatchFilesAt(p) ==
    IF p = aPng THEN {NoFile, MediaBytes(1, TRUE, <<>>), MediaBytes(1, FALSE, <<>>)}
    ELSE IF p = bJpg
         THEN {NoFile, MediaBytes(2, TRUE, <<"m">>), MediaBytes(2, FALSE, <<>>)}
         ELSE {NoFile, MediaBytes(1, TRUE, <<>>)}

BatchCalls ==
    {[pc |-> "called", op |-> "list", out |-> Null]}
    \cup {[pc |-> "called", op |-> "batch", presetName |-> presetName,
           forceOverwrite |-> forceOverwrite, configured |-> configured,
           specifiedFiles |-> specifiedFiles, targets |-> <<>>, i |-> 1,
           desc |-> Null, results |-> <<>>, attempted |-> <<>>] :
            presetName \in {<<"P">>, <<"@", "P">>, <<"Q">>},
            forceOverwrite \in BOOLEAN, configured \in BOOLEAN,
            specifiedFiles \in {<<>>, <<cMp4, bJpg>>}}

InitBatch ==
    /\ SegIdle
    /\ RecIdle
    /\ now = 1
    /\ wr = [w \in Procs |-> WrIdle]
    /\ last = NoOp
    /\ moved = NoMove
    /\ rn = NoRender
    /\ img = NoImage
    /\ sc = NoScan
    /\ bt \in BatchCalls
    /\ \E file \in [BatchPaths -> UNION {BatchFilesAt(p) : p \in BatchPaths}],
          side \in [BatchPaths -> {NoFile, BatchSidecar}] :
          /\ \A p \in BatchPaths : file[p] \in BatchFilesAt(p)
          /\ fs = [n \in Names |->
                     IF n \in BatchPaths THEN file[n]
                     ELSE IF n = nTxt THEN MediaBytes(1, TRUE, <<>>)
                     ELSE IF endsWithDescJson(n) /\ originalNameOf(n) \in BatchPaths
                          THEN side[originalNameOf(n)]
                          ELSE NoFile]

NextBatch ==
    \/ ListReconcile
    \/ ListMatch
    \/ ListFiles
    \/ BatchScan
    \/ BatchFile
    \/ \E r \in Replies : BatchReply(r)
    \/ BatchAwait(RecognizeFail(Caller))
    \/ BatchAwait(WriteHash(Caller))
    \/ BatchAwait(WriteSidecar(Caller))
    \/ BatchAwait(WriteMirrorRead(Caller))
    \/ BatchAwait(WriteMirrorWrite(Caller))

SpecBatch == InitBatch /\ [][NextBatch]_vars

(***************************************************************************)
(* Specification of two callers at once on one image: each makes calls of  *)
(* set_desc or recognizeAndDescribe for the same path, and the steps of    *)
(* the two calls interleave at every await                                 *)
(***************************************************************************)
\* the image of the directory
ConcPath == CHOOSE p \in {aPng, bJpg} : Exists(fs, p)

\* w has no call in flight and has not written yet
Free(w) == wr[w].pc = "idle" /\ wr[w].op = "none"

ConcSetDesc(w, description) ==
    /\ Free(w)
    /\ Call
    /\ BeginWrite(w, "set_desc", ConcPath,
                  setDescObj(fs, ConcPath, description, <<>>), now')

ConcRecognize(w, presetName) ==
    /\ Free(w)
    /\ Call
    /\ RecognizeCall(w, ConcPath, presetName, FALSE, TRUE)

InitConc ==
    /\ SegIdle
    /\ RecIdle
    /\ StoreIdle
    /\ PureIdle
    /\ \E p \in {aPng, bJpg}, side \in {NoFile, BatchSidecar} :
          fs = [n \in Names |->
                  IF n = p THEN MediaBytes(1, TRUE, <<>>)
                  ELSE IF n = getDescPath(p) THEN side
                  ELSE NoFile]

NextConc ==
    \E w \in Procs :
       \/ \E d \in {<<"x">>, <<"y">>} :
             ConcSetDesc(w, d) /\ UNCHANGED <<segVars, pureVars>>
       \/ \E n \in Presets :
             ConcRecognize(w, n) /\ UNCHANGED <<segVars, pureVars>>
       \/ RecognizeFail(w) /\ UNCHANGED <<segVars, pureVars>>
       \/ \E r \in Replies : RecognizeReply(w, r) /\ UNCHANGED <<segVars, pureVars>>
       \/ WriteHash(w) /\ UNCHANGED <<segVars, pureVars>>
       \/ WriteSidecar(w) /\ UNCHANGED <<segVars, pureVars>>
       \/ WriteMirrorRead(w) /\ UNCHANGED <<segVars, pureVars>>
       \/ WriteMirrorWrite(w) /\ UNCHANGED <<segVars, pureVars>>

SpecConc == InitConc /\ [][NextConc]_vars

(***************************************************************************)
(* Claims                                                                  *)
(***************************************************************************)
PosIn(seq, x) == CHOOSE i \in 1..Len(seq) : seq[i] = x

\* the fileHash a sidecar stores, Undef when it stores none or cannot be parsed
StoredHash(fsys, descName) ==
    IF fsys[descName].kind = "json" THEN fsys[descName].data.fileHash ELSE Undef

\* a multimedia file as the directory classifier lists it (a regular,
\* non-dot, non-sidecar entry with an allow-listed extension) without sidecar
IsSidecarLess(fsys, n) ==
    /\ Exists(fsys, n)
    /\ ~shouldIgnore(n)
    /\ ~endsWithDescJson(n)
    /\ isMultimediaFile(n)
    /\ ~Exists(fsys, getDescPath(n))

\* the sidecar-less multimedia files with SHA-256 h, in listing order
SidecarLessWithHash(fsys, h) ==
    SelectSeq(Listing,
              LAMBDA n : IsSidecarLess(fsys, n) /\ computeFileHash(fsys, n) = h)

\* a step of the run that handles one orphaned sidecar
MatchStep == rec.pc = "match" /\ rec' # rec

\* C1: an orphaned sidecar storing hash H is renamed to <c>.desc.json for the
\* first sidecar-less multimedia file c, in listing order, whose SHA-256 is
\* H; (old original name, c) is added to reconciled; the candidates listed
\* before c are untouched and still have no sidecar.
C1_FirstMatchWins ==
    [][ MatchStep =>
          LET d == rec.orphanDescs[rec.i]
              H == StoredHash(fs, d)
              cands == SidecarLessWithHash(fs, H)
          IN  (H # Undef /\ cands # <<>>) =>
                LET c == cands[1]
                IN  /\ fs'[getDescPath(c)] = fs[d]
                    /\ fs'[d] = NoFile
                    /\ rec'.reconciled =
                          Append(rec.reconciled,
                                 [oldName |-> originalNameOf(d), newName |-> c])
                    /\ rec'.orphaned = rec.orphaned
                    /\ \A x \in Names :
                          (IsSidecarLess(fs, x) /\ PosIn(Listing, x) < PosIn(Listing, c))
                          => /\ computeFileHash(fs, x) # H
                             /\ fs'[x] = fs[x]
                             /\ IsSidecarLess(fs', x)
      ]_vars

\* C1 witness: a finished run that renamed a sidecar to a candidate listed
\* after another candidate, which still has no sidecar.
C1_Witness ==
    /\ rec.pc = "done"
    /\ \E i \in 1..Len(rec.reconciled) :
          /\ fs[getDescPath(rec.reconciled[i].newName)].kind = "json"
          /\ \E x \in Names :
                /\ IsSidecarLess(fs, x)
                /\ PosIn(Listing, x) < PosIn(Listing, rec.reconciled[i].newName)

\* C2: an orphaned sidecar with no stored fileHash, or whose fileHash is the
\* hash of no remaining candidate, is reported in orphaned by its sidecar
\* file name and stays at its path with its content; nothing is renamed.
C2_UnmatchedStaysOrphaned ==
    [][ MatchStep =>
          LET d == rec.orphanDescs[rec.i]
              H == StoredHash(fs, d)
          IN  (H = Undef \/ SidecarLessWithHash(fs, H) = <<>>) =>
                /\ rec'.orphaned = Append(rec.orphaned, d)
                /\ rec'.reconciled = rec.reconciled
                /\ fs' = fs
      ]_vars

\* C2 witness: a finished run reports a sidecar that stores a hash as
\* orphaned although sidecar-less candidates exist, and one that stores none.
C2_Witness ==
    /\ rec.pc = "done"
    /\ \E x \in Names : IsSidecarLess(fs, x)
    /\ \E i, j \in 1..Len(rec.orphaned) :
          /\ Exists(fs, rec.orphaned[i])
          /\ StoredHash(fs, rec.orphaned[i]) # Undef
          /\ Exists(fs, rec.orphaned[j])
          /\ StoredHash(fs, rec.orphaned[j]) = Undef

CountIn(seq, x) == Cardinality({i \in 1..Len(seq) : seq[i] = x})

\* C3: the matching of one run is one-to-one: no candidate is the new name
\* of two pairs, no orphan is the old name of two pairs, and once the run is
\* done every orphaned sidecar is in exactly one of reconciled and orphaned.
C3_OneToOne ==
    /\ \A i, j \in 1..Len(rec.reconciled) :
          i # j => /\ rec.reconciled[i].newName # rec.reconciled[j].newName
                   /\ rec.reconciled[i].oldName # rec.reconciled[j].oldName
    /\ \A i \in 1..Len(rec.reconciled) :
          fs[getDescPath(rec.reconciled[i].newName)].kind \in {"json", "bad-json"}
    /\ rec.pc = "done" =>
          /\ Len(rec.reconciled) + Len(rec.orphaned) = Len(rec.orphanDescs)
          /\ \A k \in 1..Len(rec.orphanDescs) :
                LET d == rec.orphanDescs[k]
                IN  CountIn(rec.orphaned, d)
                    + Cardinality({i \in 1..Len(rec.reconciled) :
                                      rec.reconciled[i].oldName = originalNameOf(d)})
                    = 1

\* C3 witness: a finished run matched two orphans storing the same hash to
\* two byte-identical candidates.
C3_Witness ==
    /\ rec.pc = "done"
    /\ Len(rec.reconciled) = 2
    /\ StoredHash(fs, getDescPath(rec.reconciled[1].newName))
         = StoredHash(fs, getDescPath(rec.reconciled[2].newName))
    /\ fs[rec.reconciled[1].newName] = fs[rec.reconciled[2].newName]

\* the record the sidecar of filePath holds, when it holds one
HasRecord(fsys, filePath) ==
    Exists(fsys, getDescPath(filePath)) /\ fsys[getDescPath(filePath)].kind = "json"

RecordOf(fsys, filePath) == fsys[getDescPath(filePath)].data

\* the step of a writeDescription call that persists the sidecar
SidecarStep(w) == wr[w].pc = "sidecar" /\ wr'[w].persisted

\* C4: when a write for a media file has returned normally, an external
\* actor then renames the file keeping its bytes, no other file has the same
\* content, and the directory is reconciled next, the run moves the sidecar
\* to the file's new name and reports (old name, new name) in reconciled,
\* whatever the media type and the description.
C4_RenameRecovery ==
    ( /\ rec.pc = "done"
      /\ last.op = "reconcile"
      /\ moved # NoMove
      /\ \A q \in MediaPaths \ {moved.to} : ~Exists(fs, q) \/ fs[q] # fs[moved.to] )
    => /\ HasRecord(fs, moved.to)
       /\ ~Exists(fs, getDescPath(moved.from))
       /\ \E k \in DOMAIN rec.reconciled :
             rec.reconciled[k] = [oldName |-> moved.from, newName |-> moved.to]

\* C5: a write through set_desc, update_tags or recognition to a path whose
\* sidecar already holds a record keeps that record's createdAt, and every
\* write stores the time of its call as updatedAt.
C5_CreatedAtSetOnce ==
    [][ \A w \in Procs : SidecarStep(w) =>
          LET p == wr[w].path
          IN  /\ RecordOf(fs', p).updatedAt = now
              /\ HasRecord(fs, p) =>
                    RecordOf(fs', p).createdAt = RecordOf(fs, p).createdAt ]_vars

\* C6: a write made while the media file cannot be read persists the
\* fileHash of the sidecar that existed before it (none if there was none);
\* no write removes a stored hash, and a hash that appears is the hash of
\* the file's bytes.
C6_FileHashBestEffort ==
    [][ \A w \in Procs : SidecarStep(w) =>
          LET p == wr[w].path
              before == IF HasRecord(fs, p) THEN RecordOf(fs, p).fileHash ELSE Undef
              after == RecordOf(fs', p).fileHash
          IN  /\ ~Exists(fs, p) => after = before
              /\ before # Undef => after # Undef
              /\ (after # Undef /\ after # before) =>
                    Exists(fs, p) /\ after = computeFileHash(fs, p) ]_vars

\* a step of a writeDescription call
WriteStep(w) == wr[w].pc \in {"hash", "sidecar", "mirrorRead", "mirrorWrite"}

\* C7: during writeDescription a media file changes only once the sidecar
\* holds the call's data; when the mirror write fails the call still returns
\* normally and the sidecar keeps that data; the call throws only when the
\* sidecar was not persisted.
C7_SidecarIsCommitPoint ==
    [][ \A w \in Procs : WriteStep(w) =>
          LET d == getDescPath(wr[w].path)
          IN  /\ (\E p \in MediaPaths \cup OtherPaths : fs'[p] # fs[p]) =>
                    /\ wr[w].persisted
                    /\ fs[d] = JsonFile(wr[w].data)
                    /\ fs'[d] = fs[d]
              /\ (wr'[w].mirror = "failed") =>
                    /\ wr'[w].result = "ok"
                    /\ fs' = fs
                    /\ fs'[d] = JsonFile(wr'[w].data)
              /\ (wr'[w].result = "threw") =>
                    ~wr'[w].persisted /\ fs' = fs ]_vars

\* the mirror write of a non-empty description failed at fs.writeFile, and
\* the call returned normally with the sidecar in place
C7_Witness ==
    \E w \in Procs :
       /\ wr[w].pc = "idle"
       /\ wr[w].mirror = "failed"
       /\ wr[w].buffer # NoFile
       /\ wr[w].result = "ok"
       /\ fs[getDescPath(wr[w].path)] = JsonFile(wr[w].data)
       /\ fs[wr[w].path] # wr[w].buffer

\* the text the file at filePath embeds, as its format's reader returns it
EmbeddedText(fsys, filePath) ==
    IF ~Exists(fsys, filePath) \/ ~fsys[filePath].wellFormed THEN <<>>
    ELSE IF extname(filePath) = "png" THEN fsys[filePath].text
    ELSE Trim(fsys[filePath].text)

\* C8: a read returns a value, never an error: the record of the sidecar when
\* the sidecar exists and parses, whatever the file embeds; null when the
\* sidecar exists and cannot be parsed; when there is no sidecar, the
\* embedded view for .png/.jpg/.jpeg and null for every other extension.
C8_ReadNeverFails ==
    last.op = "read" =>
       LET p == last.path
       IN  /\ last.result # [kind |-> "threw"]
           /\ IF Exists(fs, getDescPath(p))
              THEN last.result = IF HasRecord(fs, p) THEN RecordOf(fs, p) ELSE Null
              ELSE IF extname(p) \in {"png", "jpg", "jpeg"}
              THEN last.result = IF EmbeddedText(fs, p) = <<>> THEN Null
                                 ELSE EmbeddedView("Embedded", EmbeddedText(fs, p))
              ELSE last.result = Null

\* a read of a path whose sidecar holds a record while the file embeds a text
C8_Witness ==
    /\ last.op = "read"
    /\ HasRecord(fs, last.path)
    /\ EmbeddedText(fs, last.path) # <<>>
    /\ last.result = RecordOf(fs, last.path)

\* a read that fell back to the embedded view
C8_FallbackWitness ==
    /\ last.op = "read"
    /\ ~Exists(fs, getDescPath(last.path))
    /\ last.result # Null

\* a call of deleteDescription or _actionDeleteDesc for filePath
DeleteStep(filePath) ==
    now' = now + 1 /\ last'.op = "delete" /\ last'.path = filePath

\* C9 as stated: after a delete no sidecar exists for the path, no error is
\* reported when none existed, and a delete right after a delete changes
\* nothing.
C9_DeleteLeavesNoSidecar ==
    [][ \A p \in MediaPaths : DeleteStep(p) =>
          /\ ~Exists(fs', getDescPath(p))
          /\ ~Exists(fs, getDescPath(p)) => last'.result.kind = "ok"
          /\ (last.op = "delete" /\ last.path = p) => fs' = fs ]_vars

\* C9, amended: a delete that returns without having met an unlink error
\* leaves no sidecar for the path; when the unlink of an existing sidecar
\* fails the sidecar stays and the call logs or throws; no other file
\* changes; no error is reported when no sidecar existed; a delete right
\* after a delete that met no error changes nothing and meets no error.
C9_DeleteUnlessUnlinkFails ==
    [][ \A p \in MediaPaths : DeleteStep(p) =>
          /\ last'.result.kind \in {"ok", "logged", "threw"}
          /\ last'.result.kind = "ok" => ~Exists(fs', getDescPath(p))
          /\ last'.result.kind # "ok" => fs' = fs
          /\ \A n \in Names \ {getDescPath(p)} : fs'[n] = fs[n]
          /\ ~Exists(fs, getDescPath(p)) => (last'.result.kind = "ok" /\ fs' = fs)
          /\ (last.op = "delete" /\ last.path = p /\ last.result.kind = "ok") =>
                (fs' = fs /\ last'.result.kind = "ok") ]_vars

\* the sidecar the last write persisted for a path is gone after a delete
C9_Witness ==
    /\ last.op = "delete"
    /\ last.result.kind = "ok"
    /\ ~Exists(fs, getDescPath(last.path))
    /\ wr[Caller].persisted
    /\ wr[Caller].path = last.path

\* a marker [@name:] occurs in the text
HasMarker(s) == NextMarker(s, 1) <= Len(s)

\* the text holds the marker [@Native:]
HasNativeMarker(s) ==
    \E i \in 1..Len(s) :
       /\ MarkerEnd(s, i) # 0
       /\ SubSeq(s, i + 2, MarkerEnd(s, i) - 2) = Native

\* C11: when recognition persists its upsert for a path whose existing
\* description is non-empty and holds no marker, the description it writes
\* holds no [@Native:] marker.
C11_NativeNeverWritten ==
    [][ \A w \in Procs : (SidecarStep(w) /\ wr[w].op = "recognize") =>
          LET existing == readDescription(fs, wr[w].path)
          IN  ( /\ existing # Null
                /\ Trim(existing.description) # <<>>
                /\ ~HasMarker(existing.description) )
              => ~HasNativeMarker(RecordOf(fs', wr[w].path).description) ]_vars

\* the names and contents an upsert can establish
CleanSegNames == {cleanPresetName(n) : n \in SegNames}

\* the entries of a Map whose key is not k, in order
Others(m, k) == SelectSeq(m, LAMBDA e : e[1] # k)

\* C12: an upsert of (name, content) changes only the segment called name:
\* the segments parsed from the new description are those parsed from the
\* old one, with the content of name replaced where it stood, or with
\* (name, content) appended when there was no such segment.
C12_UpsertChangesOneSegment ==
    [][ \A k \in CleanSegNames, v \in SegContents :
          ( /\ segN' = segN + 1
            /\ segEst' = MapSet(parseSegmentedDescription(segDesc), k, v) )
          => LET before == parseSegmentedDescription(segDesc)
                 after == parseSegmentedDescription(segDesc')
             IN  /\ Others(after, k) = Others(before, k)
                 /\ Len(after) = IF MapHas(before, k) THEN Len(before)
                                  ELSE Len(before) + 1
                 /\ \E i \in 1..Len(after) :
                       /\ after[i] = <<k, v>>
                       /\ IF MapHas(before, k) THEN before[i][1] = k
                          ELSE i = Len(after) ]_vars

\* a call of renderDescription has returned
Rendered == rn.pc = "returned" /\ rn.fn = "renderDescription"

\* the rendered block of a segment
Block(e) == <<"[">> \o e[1] \o <<"]", "\n">> \o e[2]

\* the requested name with one leading @ removed
Unprefixed(name) == IF name # <<>> /\ name[1] = "@" THEN Tail(name) ELSE name

\* C13: the blocks renderDescription selects are those of every parsed
\* segment when requestedNames is empty or holds "all" in any letter case,
\* and otherwise those of the segments whose name equals, ignoring case,
\* a requested name with one leading @ removed; they keep the segments'
\* order.
C13_RenderSelection ==
    (Rendered /\ rn.descObj # Null) =>
       LET segs == parseSegmentedDescription(rn.descObj.description)
           req == rn.requestedPresets
           all == \/ req = <<>>
                  \/ \E i \in 1..Len(req) : toLowerCase(req[i]) = <<"a", "l", "l">>
           Wanted(e) == \/ all
                        \/ \E i \in 1..Len(req) :
                              toLowerCase(Unprefixed(req[i])) = toLowerCase(e[1])
           chosen == SelectSeq(segs, Wanted)
       IN  rn.parts = [i \in 1..Len(chosen) |-> Block(chosen[i])]

\* two of three segments selected by one requested name written with @ and
\* in another letter case
C13_Witness ==
    /\ Rendered
    /\ rn.descObj # Null
    /\ Len(parseSegmentedDescription(rn.descObj.description)) = 3
    /\ rn.requestedPresets = << <<"@", "p">> >>
    /\ Len(rn.parts) = 2

\* the line naming the file
FileLine ==
    IF rn.hideFilePath
    THEN <<"[">> \o NameLabel \o <<":", " ">> \o basename(rn.filePath) \o <<"]">>
    ELSE <<"[">> \o PathLabel \o <<":", " ">> \o rn.filePath \o <<"]">>

TagOnlyRendered == rn.pc = "returned" /\ rn.fn = "renderTagOnly"

\* C15 as stated: renderTagOnly returns null when the tags are absent or
\* empty, and otherwise the line "Tag: <tags>" followed by the line naming
\* the file and nothing else.
C15_TagOnlyNullWithoutTags ==
    TagOnlyRendered =>
       IF rn.descObj = Null \/ Trim(rn.descObj.tags) = <<>> THEN rn.out = Null
       ELSE rn.out = Str(<<"T", "a", "g", ":", " ">> \o Trim(rn.descObj.tags)
                         \o <<"\n">> \o FileLine)

\* C15, amended: renderTagOnly returns null only when there is no record;
\* for a record whose tags are absent, empty or white space it returns the
\* empty string; otherwise the line "Tag: " with the trimmed tags followed
\* by the line naming the file and nothing else.
C15_TagOnlyEmptyWithoutTags ==
    TagOnlyRendered =>
       IF rn.descObj = Null THEN rn.out = Null
       ELSE IF Trim(rn.descObj.tags) = <<>> THEN rn.out = Str(<<>>)
       ELSE rn.out = Str(<<"T", "a", "g", ":", " ">> \o Trim(rn.descObj.tags)
                         \o <<"\n">> \o FileLine)

\* renderTagOnly called on a record whose tags are white space
C15_Witness ==
    /\ TagOnlyRendered
    /\ rn.descObj # Null
    /\ rn.descObj.tags = <<" ">>
    /\ rn.out = Str(<<>>)

\* the whole chunks of a PNG buffer, each with its length, type, data and CRC
RawChunks(buffer) ==
    LET chunks == parsePngChunks(buffer).chunks
    IN  [i \in 1..Len(chunks) |->
            Slice(buffer, chunks[i].offset, chunks[i].offset + 3 + Len(chunks[i].data))]

TypeOfRaw(raw) == raw[2].t
DataOfRaw(raw) == SubSeq(raw, 3, Len(raw) - 1)

\* a tEXt or iTXt chunk whose data starts with Description and a NUL
IsDescriptionChunk(raw) ==
    /\ TypeOfRaw(raw) \in {"tEXt", "iTXt"}
    /\ Len(DataOfRaw(raw)) >= 2
    /\ DataOfRaw(raw)[1] = Byte("Description")
    /\ DataOfRaw(raw)[2] = NulByte

DescriptionChunksOf(buffer) ==
    {i \in 1..Len(RawChunks(buffer)) : IsDescriptionChunk(RawChunks(buffer)[i])}

\* the signature, IHDR first, IEND last and no byte after it
WellFormedPng(buffer) ==
    /\ hasPngSignature(buffer)
    /\ RawChunks(buffer) # <<>>
    /\ TypeOfRaw(RawChunks(buffer)[1]) = "IHDR"
    /\ TypeOfRaw(RawChunks(buffer)[Len(RawChunks(buffer))]) = "IEND"
    /\ buffer = <<PNG_SIGNATURE>> \o Concat(RawChunks(buffer))

\* a read of the PNG after at least one write that wrote
PngReadBack == img.format = "png" /\ img.pc = "read" /\ img.writes >= 1

\* C16: for every well-formed PNG, whatever tEXt/iTXt chunks it holds, a
\* read after a write of a text that is not white space returns exactly
\* the text written.
C16_PngRoundTrip ==
    (PngReadBack /\ WellFormedPng(img.buffer)) =>
       (img.read # Null /\ img.read.description = img.text)

\* a write into a PNG has just produced a new file
PngWritten == img.format = "png" /\ img.pc = "written"

\* the chunk the write built for its text
WrittenChunk == buildPngChunk("iTXt", buildITXtChunkData(Description, img.text))

\* C17: the chunks of the written PNG are the chunks of the input with one
\* change: the first tEXt/iTXt chunk with keyword Description is replaced
\* in place by the new iTXt chunk, or, when there is none, the new chunk is
\* inserted right after the IHDR chunk; every other chunk is unchanged and
\* in its original place.
C17_PngRebuild ==
    (PngWritten /\ TypeOfRaw(RawChunks(img.before)[1]) = "IHDR") =>
       LET old == RawChunks(img.before)
           firstDesc == DescriptionChunksOf(img.before)
       IN  RawChunks(img.buffer) =
              IF firstDesc # {}
              THEN [old EXCEPT ![MinOf(firstDesc)] = WrittenChunk]
              ELSE <<old[1], WrittenChunk>> \o Tail(old)

\* a write into a PNG that holds a Comment chunk, an ancillary chunk and
\* no Description chunk
C17_Witness ==
    /\ PngWritten
    /\ img.writes = 1
    /\ DescriptionChunksOf(img.before) = {}
    /\ \E i \in 1..Len(RawChunks(img.before)) :
          TypeOfRaw(RawChunks(img.before)[i]) = "zzZz"
    /\ \E i \in 1..Len(RawChunks(img.before)) :
          /\ TypeOfRaw(RawChunks(img.before)[i]) = "tEXt"
          /\ DataOfRaw(RawChunks(img.before)[i])[1] = Byte("Comment")

\* a write into a PNG that holds two Description chunks
C17_ReplaceWitness ==
    /\ PngWritten
    /\ Cardinality(DescriptionChunksOf(img.before)) = 2
    /\ Cardinality(DescriptionChunksOf(img.buffer)) = 2

\* the markers the parser finds in a JPEG buffer, and those before SOS
MarkersOf(buffer) == parseJpegMarkers(buffer).markers
BeforeSos(buffer) == SelectSeq(MarkersOf(buffer), LAMBDA m : ~m.isSOS)
RawSegment(buffer, m) == Slice(buffer, m.offset, m.offset + m.length)

\* where the segment before marker i ends
EndOfPrevious(buffer, i) ==
    IF i = 1 THEN 2
    ELSE MarkersOf(buffer)[i - 1].offset + MarkersOf(buffer)[i - 1].length

\* SOI, then segments with a length, each after at most fill bytes, then SOS
WellFormedJpeg(buffer) ==
    /\ hasSoi(buffer)
    /\ MarkersOf(buffer) # <<>>
    /\ MarkersOf(buffer)[Len(MarkersOf(buffer))].isSOS
    /\ \A i \in 1..Len(MarkersOf(buffer)) :
          /\ ~isStandalone(MarkersOf(buffer)[i].marker)
          /\ \A k \in EndOfPrevious(buffer, i)..(MarkersOf(buffer)[i].offset - 1) :
                At(buffer, k) = 255

\* a read of the JPEG after at least one write that wrote
JpegReadBack == img.format = "jpeg" /\ img.pc = "read" /\ img.writes >= 1

\* C18: for every well-formed JPEG, a read after a write of a text that is
\* not white space returns exactly the text written, leading and trailing
\* white space included.
C18_JpegRoundTrip ==
    (JpegReadBack /\ WellFormedJpeg(img.before)) =>
       (img.read # Null /\ img.read.description = img.text)

\* a JPEG that some write has rebuilt from a well-formed file
JpegRewritten ==
    img.format = "jpeg" /\ img.writes >= 1 /\ WellFormedJpeg(img.before)

ComsBeforeSos(buffer) ==
    {i \in 1..Len(BeforeSos(buffer)) : BeforeSos(buffer)[i].marker = 254}

C19_TwoComsWitness ==
    /\ JpegRewritten
    /\ img.writes = 1
    /\ img.pc = "written"
    /\ Cardinality(ComsBeforeSos(img.before)) = 2

\* the segments the rebuild keeps of those before SOS, the new COM marker
\* standing where the first old one stood, or last when there was none
RECURSIVE KeptSegments(_, _, _, _)
KeptSegments(buffer, comMarker, i, placed) ==
    IF i > Len(BeforeSos(buffer))
    THEN IF placed THEN <<>> ELSE comMarker
    ELSE IF BeforeSos(buffer)[i].marker = 254
    THEN (IF placed THEN <<>> ELSE comMarker)
         \o KeptSegments(buffer, comMarker, i + 1, TRUE)
    ELSE RawSegment(buffer, BeforeSos(buffer)[i])
         \o KeptSegments(buffer, comMarker, i + 1, placed)

SosOffset(buffer) == MarkersOf(buffer)[Len(MarkersOf(buffer))].offset

\* a write into a well-formed JPEG has just produced a new file
JpegWritten ==
    img.format = "jpeg" /\ img.pc = "written" /\ WellFormedJpeg(img.before)

C20_ReplaceWitness ==
    /\ JpegWritten
    /\ img.writes = 1
    /\ ComsBeforeSos(img.before) = {2}

\* a scanDirectory call has returned
Scanned == sc.pc = "returned"

\* the regular files of the directory read whose name neither starts with
\* a dot nor ends with .desc.json
VisibleFiles ==
    IF ~sc.dir.exists THEN {}
    ELSE { sc.dir.entries[i].name : i \in
             { k \in 1..Len(sc.dir.entries) :
                 /\ sc.dir.entries[k].isFile
                 /\ sc.dir.entries[k].name # hPng
                 /\ sc.dir.entries[k].name # getDescPath(aPng) } }

\* the names in use that are text files (n.txt, m.MD) and multimedia files
TextNames == {nTxt, mMD}
MultimediaNames == {Bpng, aPng, gPNG}

Range(seq) == {seq[i] : i \in 1..Len(seq)}

\* strictly increasing in the code-unit order of the names
IsSorted(seq) ==
    \A i, j \in 1..Len(seq) :
       i < j => PosIn(NameOrder, seq[i]) < PosIn(NameOrder, seq[j])

\* C22: scanDirectory returns, sorted, exactly the regular files whose name
\* does not start with a dot and does not end with .desc.json, those with
\* lower-cased extension txt or md in textFiles and those of the
\* multimedia allow-list in multimediaFiles; the lists are disjoint, other
\* files are in neither, and a missing directory gives two empty lists.
C22_ScanDirectory ==
    Scanned =>
       /\ Range(sc.out.textFiles) = VisibleFiles \cap TextNames
       /\ Range(sc.out.multimediaFiles) = VisibleFiles \cap MultimediaNames
       /\ IsSorted(sc.out.textFiles)
       /\ IsSorted(sc.out.multimediaFiles)
       /\ Range(sc.out.textFiles) \cap Range(sc.out.multimediaFiles) = {}
       /\ (~sc.dir.exists =>
             sc.out.textFiles = <<>> /\ sc.out.multimediaFiles = <<>>)

\* a scan of a directory that lists n.txt first and holds a hidden file, a
\* sidecar, a file of another extension and upper-case extensions
C22_Witness ==
    /\ Scanned
    /\ sc.dir.entries # <<>>
    /\ sc.dir.entries[1].name = nTxt
    /\ {hPng, getDescPath(aPng), zZip, rBare} \subseteq Range(NamesOf(sc.dir.entries))
    /\ sc.out.textFiles = <<mMD, nTxt>>
    /\ sc.out.multimediaFiles = <<Bpng, aPng, gPNG>>

\* a scan of a missing directory
C22_MissingWitness == Scanned /\ ~sc.dir.exists /\ sc.out.textFiles = <<>>

\* the sidecar names and the other names of the directory
SidecarNames == {n \in Names : endsWithDescJson(n)}
OriginalNames == Names \ SidecarNames

\* the sidecar files of a directory, and those of them holding one content
SidecarsIn(fsys) == {n \in SidecarNames : Exists(fsys, n)}
SidecarsHolding(fsys, content) == {n \in SidecarNames : fsys[n] = content}

\* C25: a step of a reconciliation run deletes no sidecar and overwrites
\* none: the number of sidecar files and, content by content, the number of
\* sidecars holding it stay the same, a name that held a sidecar afterwards
\* holds the same one or none, sidecars whose original file is present keep
\* name and content, and no other file changes.
C25_NoSidecarLost ==
    [][ /\ Cardinality(SidecarsIn(fs')) = Cardinality(SidecarsIn(fs))
        /\ \A n \in SidecarsIn(fs) :
              Cardinality(SidecarsHolding(fs', fs[n]))
                 = Cardinality(SidecarsHolding(fs, fs[n]))
        /\ \A n \in SidecarsIn(fs) : fs'[n] \in {fs[n], NoFile}
        /\ \A n \in SidecarsIn(fs) :
              Exists(fs, originalNameOf(n)) => fs'[n] = fs[n]
        /\ \A n \in OriginalNames : fs'[n] = fs[n] ]_vars

\* a finished run that renamed a sidecar, left another orphaned, and ran on a
\* directory where a copy of the renamed-to file already had its sidecar
C25_Witness ==
    /\ rec.pc = "done"
    /\ rec.reconciled # <<>>
    /\ rec.orphaned # <<>>
    /\ \E n \in SidecarsIn(fs) :
          /\ Exists(fs, originalNameOf(n))
          /\ originalNameOf(n) # rec.reconciled[1].newName
          /\ fs[originalNameOf(n)] = fs[rec.reconciled[1].newName]

\* C26: a run that follows a finished run starts from exactly the orphaned
\* list that run returned, renames nothing, and returns an empty reconciled
\* list and that same orphaned list.
C26_Idempotent ==
    [][ /\ (rec.pc = "done" /\ rec'.runs = rec.runs + 1)
              => rec'.orphanDescs = rec.orphaned
        /\ (rec'.runs >= 2)
              => /\ fs' = fs
                 /\ rec'.reconciled = <<>>
                 /\ rec'.pc = "done" => rec'.orphaned = rec'.orphanDescs ]_vars

\* a second run finished that had a candidate file to compare with an orphan
\* carrying a hash, on a directory where two sidecars hold the same record
C26_Witness ==
    /\ rec.pc = "done"
    /\ rec.runs = 2
    /\ rec.orphaned # <<>>
    /\ mediaFilesOf(fs) # <<>>
    /\ \E i \in 1..Len(rec.orphaned) :
          fs[rec.orphaned[i]] # BadJson /\ fs[rec.orphaned[i]].data.fileHash # Undef
    /\ \E n \in SidecarsIn(fs) :
          /\ Exists(fs, originalNameOf(n))
          /\ fs[n].data.fileHash = computeFileHash(fs, originalNameOf(n))
          /\ \E m \in SidecarsIn(fs) : m # n /\ fs[m] = fs[n]

\* the description text the embedded mirror of a file reads as; "" when the
\* embedded reader returns null
MirrorText(fsys, filePath) ==
    IF readEmbeddedMetadata(fsys, filePath) = Null THEN <<>>
    ELSE readEmbeddedMetadata(fsys, filePath).description

\* a step that completes a write call of w normally, its mirror written or
\* left alone without an error
WriteReturns(w) ==
    /\ wr[w].pc \in {"mirrorRead", "mirrorWrite"}
    /\ wr'[w].pc = "idle"
    /\ wr'[w].result = "ok"
    /\ wr'[w].mirror \in {"written", "skipped"}

\* C24: when a write on a well-formed PNG or JPEG file returns, the
\* description the embedded mirror reads as equals the description field of
\* the sidecar.
C24_MirrorAgrees ==
    [][ \A w \in Procs :
           (/\ WriteReturns(w)
            /\ Exists(fs', wr[w].path)
            /\ fs'[wr[w].path].wellFormed)
           => MirrorText(fs', wr[w].path)
                 = fs'[getDescPath(wr[w].path)].data.description ]_vars

\* a step that is a delete call which returned without an error
DeleteReturns ==
    /\ last'.op = "delete"
    /\ now' # now
    /\ last'.result.kind = "ok"

\* a write call for filePath is the last one made, and it mirrored its text
Mirrored(w, filePath) ==
    /\ wr[w].op \in WriteOps
    /\ wr[w].path = filePath
    /\ wr[w].mirror = "written"
    /\ Exists(fs, filePath)

\* C27: a delete changes no file but the sidecar of its path, which is gone
\* afterwards; a read after it returns, for a PNG or JPEG file whose
\* description the last write mirrored, the embedded view with that text and
\* no tags, and null for a file of any other type.
C27_DeleteKeepsMirror ==
    [][ DeleteReturns =>
          /\ \A n \in Names \ {getDescPath(last'.path)} : fs'[n] = fs[n]
          /\ ~Exists(fs', getDescPath(last'.path))
          /\ \A w \in Procs :
                Mirrored(w, last'.path) =>
                   readDescription(fs', last'.path)
                      = EmbeddedView("Embedded", wr[w].data.description)
          /\ ~mirrors(last'.path) => readDescription(fs', last'.path) = Null ]_vars

\* the PNG and JPEG files of a directory that lack their signature
Malformed(fsys) ==
    {p \in MediaPaths : Exists(fsys, p) /\ mirrors(p) /\ ~fsys[p].wellFormed}

\* _actionListFiles has returned
Listed == bt.pc = "returned" /\ bt.op = "list"

\* whether a file of the directory has a description to show: that of its
\* sidecar, else that of the mirror of a well-formed image
Described(fsys, f) ==
    IF Exists(fsys, getDescPath(f))
    THEN fsys[getDescPath(f)].data.description # <<>>
    ELSE mirrors(f) /\ fsys[f].wellFormed /\ Trim(fsys[f].text) # <<>>

\* C21: the embedded read of a PNG or JPEG file without its signature
\* returns null, and a listing of a directory holding such files returns
\* normally with one entry for every text and multimedia file, each with
\* the hasDescription its own sidecar or mirror gives it.
C21_MalformedReadsNull ==
    /\ \A p \in Malformed(fs) : readEmbeddedMetadata(fs, p) = Null
    /\ Listed =>
          /\ bt.out.kind = "files"
          /\ NamesOf(bt.out.files)
                = scanDirectory(DirRead(fs)).textFiles
                     \o scanDirectory(DirRead(fs)).multimediaFiles
          /\ \A i \in 1..Len(bt.out.files) :
                bt.out.files[i].hasDescription
                   = (/\ isMultimediaFile(bt.out.files[i].name)
                      /\ Described(fs, bt.out.files[i].name))

\* a listing of a directory whose a.png and b.jpg both lack the signature,
\* a.png having no sidecar, next to a video with a description
C21_Witness ==
    /\ Listed
    /\ Malformed(fs) = {aPng, bJpg}
    /\ ~Exists(fs, getDescPath(aPng))
    /\ \E i, j \in 1..Len(bt.out.files) :
          /\ bt.out.files[i].name = aPng
          /\ ~bt.out.files[i].hasDescription
          /\ bt.out.files[j].name = cMp4
          /\ bt.out.files[j].hasDescription

\* a step in which recognizeAndDescribe is called for the next target
CalledForTarget == bt.pc = "file" /\ bt'.attempted # bt.attempted

\* the content of a segment of a description; <<>> when there is none
SegmentContent(description, name) ==
    LET segments == parseSegmentedDescription(description)
    IN  IF MapHas(segments, name)
        THEN segments[CHOOSE i \in 1..Len(segments) : segments[i][1] = name][2]
        ELSE <<>>

\* the record read for the target has a segment of the preset, its name
\* taken without one leading "@"
HasSegment(existing, presetName) ==
    /\ existing # Null
    /\ MapHas(parseSegmentedDescription(existing.description),
              IF Head(presetName) = "@" THEN Tail(presetName) ELSE presetName)

\* C28: called without forceOverwrite for a preset whose segment the file's
\* description already has, recognizeAndDescribe returns the record read,
\* makes no request to the model and writes no file; called with
\* forceOverwrite for a sendable file it makes the request, and the sidecar
\* it then writes holds the reply as that segment.
C28_SkipUnlessForced ==
    [][ /\ CalledForTarget =>
           LET p == bt.targets[bt.i]
               existing == readDescription(fs, p)
           IN  /\ (~bt.forceOverwrite /\ HasSegment(existing, bt.presetName))
                     => /\ fs' = fs
                        /\ wr' = wr
                        /\ last'.result = existing
                        /\ bt'.results = Append(bt.results, <<p, existing>>)
               /\ (/\ bt.forceOverwrite
                   /\ HasSegment(existing, bt.presetName)
                   /\ isBase64Sendable(p)
                   /\ bt.configured)
                     => wr'[Caller].pc = "fetch"
        /\ (bt.pc = "await" /\ wr[Caller].pc = "sidecar" /\ fs' # fs)
              => \E r \in Replies :
                    SegmentContent(fs'[getDescPath(wr[Caller].path)].data.description,
                                   cleanPresetName(bt.presetName))
                       = r.description ]_vars

\* a batch for the preset "@P" without forceOverwrite that returned the
\* records of two files already holding segment P, their sidecars as found
C28_Witness ==
    /\ bt.pc = "returned"
    /\ bt.op = "batch"
    /\ bt.presetName = <<"@", "P">>
    /\ ~bt.forceOverwrite
    /\ Len(bt.results) = 2
    /\ \A i \in 1..Len(bt.results) :
          /\ fs[getDescPath(bt.results[i][1])] = BatchSidecar
          /\ bt.results[i][2] = BatchSidecar.data

\* a batch with forceOverwrite that replaced the content "o" of segment P
\* of a.png by the reply
C28_ForcedWitness ==
    /\ bt.pc = "returned"
    /\ bt.op = "batch"
    /\ bt.forceOverwrite
    /\ \E i \in 1..Len(bt.results) : bt.results[i][1] = aPng
    /\ SegmentContent(fs[getDescPath(aPng)].data.description, <<"P">>) = <<"y">>
    /\ fs[getDescPath(aPng)].data.createdAt = BatchSidecar.data.createdAt

\* a step in which recognizeAndDescribe returns null for the target
ReturnsNull ==
    /\ bt.pc \in {"file", "await"}
    /\ bt'.i # bt.i
    /\ bt'.results = bt.results

\* C29: a step of a recognition that ends it for one of the failures (file
\* type not sendable, API not configured, file unreadable, request failed or
\* empty, sidecar write failed) returns null; a recognition that returns
\* null has written no file in any of its steps, a step of a recognition
\* that writes a file belongs to one whose sidecar is written; and a batch
\* that returned has called recognizeAndDescribe for every target, in order.
C29_FailureChangesNothing ==
    [][ /\ (/\ CalledForTarget
            /\ ~(/\ ~bt.forceOverwrite
                 /\ HasSegment(readDescription(fs, bt.targets[bt.i]),
                               bt.presetName))
            /\ \/ ~isBase64Sendable(bt.targets[bt.i])
               \/ ~bt.configured)
              => ReturnsNull
        /\ (bt.pc = "await" /\ wr'[Caller].result \in {"null", "threw"})
              => ReturnsNull
        /\ ReturnsNull
              => /\ fs' = fs
                 /\ bt.pc = "await"
                       => ~wr'[Caller].persisted /\ wr'[Caller].mirror = "none"
        /\ (bt.pc \in {"file", "await"} /\ fs' # fs)
              => wr'[Caller].persisted
        /\ (bt'.pc = "returned" /\ bt'.op = "batch")
              => /\ bt'.attempted = bt'.targets
                 /\ bt'.targets
                       = targetsOf(scanDirectory(DirRead(fs')).multimediaFiles,
                                   bt'.specifiedFiles) ]_vars

\* a batch that returned after recognitions that failed for a file that is
\* not sendable and for a request that failed, followed by one that succeeded
C29_Witness ==
    /\ bt.pc = "returned"
    /\ bt.op = "batch"
    /\ bt.configured
    /\ bt.targets = <<aPng, bJpg, cMp4>>
    /\ bt.attempted = bt.targets
    /\ Len(bt.results) = 1
    /\ bt.results[1][1] = bJpg
    /\ ~Exists(fs, getDescPath(aPng))
    /\ ~Exists(fs, getDescPath(cMp4))

\* a step in which w's writeDescription writes the sidecar
SidecarWritten(w) == wr[w].pc = "sidecar" /\ wr'[w].persisted

\* both callers' writeDescription calls have returned normally
BothWrote == \A w \in Procs : wr[w].pc = "idle" /\ wr[w].persisted /\ wr[w].result = "ok"

\* the callers whose call rewrote the image
MirrorWriters == {w \in Procs : wr[w].mirror = "written"}

\* C23: with two writeDescription calls for one PNG or JPEG path interleaved
\* at their awaits, the sidecar changes only in a step that writes it, which
\* leaves in it exactly the record of the caller writing, so that after both
\* calls it holds the whole record of the one that wrote last; and then
\* the image, if a call rewrote it, is the buffer one of those calls rebuilt,
\* and its text is the description of one of the two calls.
C23_LastWriterWins ==
    [][ /\ \A w \in Procs :
              SidecarWritten(w) => fs'[getDescPath(ConcPath)] = JsonFile(wr'[w].data)
        /\ fs'[getDescPath(ConcPath)] # fs[getDescPath(ConcPath)]
              => \E w \in Procs : SidecarWritten(w)
        /\ BothWrote' =>
              /\ \E w \in Procs : fs'[getDescPath(ConcPath)] = JsonFile(wr'[w].data)
              /\ MirrorWriters' # {} =>
                    /\ \E w \in MirrorWriters' : fs'[ConcPath] = wr'[w].buffer
                    /\ \E w \in Procs :
                          fs'[ConcPath].text = wr'[w].data.description ]_vars

\* both calls returned, the sidecar holding the record of caller1 and the
\* image the rebuild of caller2, each carrying its own text
C23_Witness ==
    /\ BothWrote
    /\ MirrorWriters = Procs
    /\ wr["caller1"].data.description # wr["caller2"].data.description
    /\ fs[getDescPath(ConcPath)] = JsonFile(wr["caller1"].data)
    /\ fs[ConcPath] = wr["caller2"].buffer
    /\ fs[ConcPath].text = wr["caller2"].data.description

\* two recognitions of the image for different presets have both returned
\* their record
BothRecognized ==
    /\ BothWrote
    /\ \A w \in Procs : wr[w].op = "recognize"
    /\ cleanPresetName(wr["caller1"].presetName)
          # cleanPresetName(wr["caller2"].presetName)

\* C30: after two recognitions for different presets that ran at once on one
\* file and both succeeded, the description of the sidecar has the segments
\* of both presets.
C30_BothSegmentsKept ==
    BothRecognized =>
       \A w \in Procs :
          MapHas(parseSegmentedDescription(
                     fs[getDescPath(ConcPath)].data.description),
                 cleanPresetName(wr[w].presetName))

\* C10: every description built by upserts parses back to the ordered
\* (name, content) pairs the last upsert established.
C10_RoundTrip == parseSegmentedDescription(segDesc) = segEst

=============================================================================
